---- MODULE Spec2Model ----
(***************************************************************************)
(* The Weather Effects Engine of the field scene                           *)
(* (src/src/components/WeatherEffects.tsx): one WeatherEffects object on   *)
(* the scene that Field.tsx builds, driven by updateWeather, animate and   *)
(* dispose calls; and the Field component itself                           *)
(* (src/src/components/Field.tsx): its asset loading, its frame loop, its  *)
(* resize listener, its effect cleanup and the Weather element it renders. *)
(*                                                                         *)
(* Numbers.  TLA+ has integers only, so every quantity is kept in a fixed  *)
(* unit:                                                                   *)
(*   windSpeed     tenths of m/s          (35 is 3.5 m/s)                  *)
(*   humidity      percent, windDirection degrees, delta seconds           *)
(*   positions     1/Unit of a scene unit (Unit = 10^5)                    *)
(*   Math.random() a numerator over RandDen (9999 is 0.9999)               *)
(*   fog density   millionths             (1600 is 0.0016)                 *)
(*   intensities   tenths, arrow scale hundredths, rotation.z degrees      *)
(*                 (the code stores degrees * PI / 180)                    *)
(*                                                                         *)
(* Particle buffers.  The rain buffer holds up to 5000 particles, the wind *)
(* buffer 50 streaks; every element is written and moved by the same code  *)
(* and no element reads another.  The model keeps each buffer's length and *)
(* follows the first element of one buffer: `observed` says which.         *)
(***************************************************************************)
EXTENDS Integers, Sequences, FiniteSets, TLC

VARIABLES
    weatherState,   \* this.weatherState: the last WeatherState applied, or Null
    clouds,         \* this.clouds: the cloud group, or Null
    rainParticles,  \* this.rainParticles: the rain Points, or Null
    windLines,      \* this.windLines: the streak LineSegments, or Null
    fog,            \* this.fog: the engine's FogExp2, or Null
    windIndicator,  \* this.windIndicator: the compass group, or Null
    windArrow,      \* this.windArrow: the arrow mesh of the compass, or Null
    scene,          \* this.scene: its effect children, its fog and its lights
    gpuResources,   \* effect instances whose geometries, materials and textures
                    \* have been constructed and never disposed
    nextId,         \* identity of the next object constructed by `new`
    observed,       \* the buffer whose first element the model follows
    calls,          \* number of updateWeather and animate calls made so far
    lastCall,       \* the latest call or event: its name, the delta of animate,
                    \* and for updateWeather whether it passed the state
                    \* already applied
    disposed,       \* dispose() has been called
    thrown          \* the latest call ended by throwing an exception

\* The Field component: the state of its mount effect and of its render.
VARIABLES
    initPhase,      \* where initializeScene stands: "textures", "plants",
                    \* "complete" or "failed"
    texturesLoaded, \* texture loads that have succeeded
    texturesFailed, \* texture loads that have failed
    plantLoad,      \* the plant model load: "idle", "file", "parsing",
                    \* "loaded" or "failed"
    itemsLoaded,    \* loadingManager.itemsLoaded
    itemsTotal,     \* loadingManager.itemsTotal
    progress,       \* the React state `progress`
    loading,        \* the React state `loading`
    loadingMessage, \* the React state `loadingMessage`
    built,          \* the parts added to the scene: terrain, grass, plants
    mixers,         \* length of the `mixers` array
    disposeCalls,   \* dispose() calls received by each geometry and material
    pendingFrames,  \* requestAnimationFrame(animate) callbacks that are pending
    frames,         \* frames run since the first one
    resizeListener, \* handleResize is registered on window
    windowSize,     \* the window's inner size
    rendererSize,   \* the size last given to the camera and the renderer
    canvasMounted,  \* renderer.domElement is a child of the mount element
    rendererDisposed, \* renderer.dispose() has been called
    tornDown,       \* the effect cleanup has run
    coordinates,    \* the React state `coordinates` is set
    weatherData,    \* the React state `weather` of the Weather element: the
                    \* weatherData last stored, or Null
    fetches,        \* fetchWeather calls completed
    textureMaps,    \* the TextureMaps that loadTextures returns, or Null before
    constructionLog, \* the steps of initializeScene started so far, in order
    plantField      \* the plant clones of the scene: the field groups, the
                    \* clones inside a field group, the clones added to the
                    \* scene itself

engineVars ==
    <<weatherState, clouds, rainParticles, windLines, fog, windIndicator,
      windArrow, scene, gpuResources, nextId, observed, calls, disposed>>

fieldVars ==
    <<initPhase, texturesLoaded, texturesFailed, plantLoad, itemsLoaded,
      itemsTotal, progress, loading, loadingMessage, built, mixers,
      disposeCalls, pendingFrames, frames, resizeListener, windowSize,
      rendererSize, canvasMounted, rendererDisposed, tornDown, coordinates,
      weatherData, fetches, textureMaps, plantField, constructionLog>>

\* The terrain generators, run on their own.
VARIABLES
    terrainLatest,   \* the latest run: its generator, the first vertex of the
                     \* part of the mesh that the model follows, and the
                     \* heights of that part after the run; Null before any run
    terrainPrevious, \* the run before the latest
    terrainRuns      \* runs made so far

terrainVars == <<terrainLatest, terrainPrevious, terrainRuns>>

\* lib/mongodb.ts: the module's cache, the connection attempts, the callers
\* of dbConnect and the microtasks that are waiting to run.
VARIABLES
    cachedConn,     \* cached.conn: the Mongoose instance, or Null
    cachedPromise,  \* cached.promise: the attempt it stands for, or 0 for null
    attempts,       \* every mongoose.connect(...).then(...).catch(...) promise:
                    \* "unused", "pending", "resolved" or "rejected"
    waiters,        \* per attempt, the callers suspended on it, in the order
                    \* of their awaits
    callerAt,       \* per caller: "idle", "queued" (its call is a microtask),
                    \* "awaiting", "returned" or "threw"
    awaited,        \* per caller, the attempt its await was given, or 0
    jobs,           \* the microtask queue: calls of dbConnect and
                    \* continuations of awaits, first in first out
    dbCalls         \* calls of dbConnect made so far

dbVars ==
    <<cachedConn, cachedPromise, attempts, waiters, callerAt, awaited, jobs, dbCalls>>

\* The Weather component on its own: its city or coordinates, its requests
\* and what it shows.
VARIABLES
    query,          \* the city, or the coordinates, that fetchWeather closes over
    requests,       \* fetchWeather calls made so far; a request is its number
    outstanding,        \* the requests whose fetch has not settled, each with
                    \* the query it was made for
    succeeded,      \* the requests whose fetch has succeeded
    shownWeather,   \* the `weather` state: the request and the query of the
                    \* answer stored last, or Null
    handedOver,     \* the argument of the latest onWeatherUpdate call, or Null
    fetchError      \* the `error` state: TRUE when a message is set

pollVars ==
    <<query, requests, outstanding, succeeded, shownWeather, handedOver, fetchError>>

vars == <<engineVars, thrown, lastCall, fieldVars, terrainVars, dbVars, pollVars>>

-----------------------------------------------------------------------------
(* Bounds of the model. *)

\* updateWeather and animate calls made on one engine.
MaxCalls == 2
\* Frames run after the first one.
MaxFrames == 2
\* fetchWeather calls of the Weather element.
MaxFetches == 2
\* Runs of a terrain generator.
MaxTerrainRuns == 2
\* Consecutive vertices of the ground mesh that the model follows.
TerrainWindow == 2
\* Callers of dbConnect, connection attempts and calls that the model follows.
MaxCallers == 3
MaxAttempts == 3
MaxDbCalls == 4
\* fetchWeather calls of one Weather element that the model follows.
MaxRequests == 4

-----------------------------------------------------------------------------
(* Values. *)

\* null, the initial value of every handle.
Null == [id |-> 0]

Unit == 10 ^ 5
RandDen == 10 ^ 4
\* One Math.random() numerator step, in position units.
RandUnit == Unit \div RandDen

\* Outcomes of Math.random(), which lies in [0, 1): the least one and one
\* close to 1.
RandomDraws == {0, RandDen - 1}

\* Condition labels, as sequences of characters.
LabelRain == <<"R", "a", "i", "n">>
LabelRainLower == <<"r", "a", "i", "n">>
LabelRainUpper == <<"R", "A", "I", "N">>
LabelClouds == <<"C", "l", "o", "u", "d", "s">>
LabelClear == <<"C", "l", "e", "a", "r">>

Conditions == {LabelRain, LabelRainLower, LabelRainUpper, LabelClouds, LabelClear}
\* Tenths of m/s: calm, exactly 3 m/s, 3.5 m/s.
WindSpeeds == {0, 30, 35}
Humidities == {0, 57, 100}
WindDirections == {90, 270}
Temperatures == {18}

\* A field that the caller left out.
Undefined == <<"undefined">>

\* Malformed values: the conditions label is missing, or the windSpeed is
\* negative (-5 m/s).
MalformedStates ==
    [conditions : {Undefined}, temperature : Temperatures, windSpeed : {35},
     humidity : {57}, windDirection : {90}]
    \cup
    [conditions : {LabelRain, LabelClear}, temperature : Temperatures,
     windSpeed : {0 - 50}, humidity : {57}, windDirection : {90}]

\* The values updateWeather is called with.
WeatherStates ==
    [conditions : Conditions, temperature : Temperatures, windSpeed : WindSpeeds,
     humidity : Humidities, windDirection : WindDirections]

\* Seconds between two frames: the same instant, one second, and the long
\* gap of a tab that was in the background.
Deltas == {0, 1, 400}

-----------------------------------------------------------------------------
(* Strings. *)

UpperCaseLetters ==
    <<"A", "B", "C", "D", "E", "F", "G", "H", "I", "J", "K", "L", "M",
      "N", "O", "P", "Q", "R", "S", "T", "U", "V", "W", "X", "Y", "Z">>
LowerCaseLetters ==
    <<"a", "b", "c", "d", "e", "f", "g", "h", "i", "j", "k", "l", "m",
      "n", "o", "p", "q", "r", "s", "t", "u", "v", "w", "x", "y", "z">>

ToLowerCaseChar(c) ==
    IF \E i \in DOMAIN UpperCaseLetters : UpperCaseLetters[i] = c
    THEN LowerCaseLetters[CHOOSE i \in DOMAIN UpperCaseLetters : UpperCaseLetters[i] = c]
    ELSE c

\* A mutation of ToLowerCase: the label is compared as it was written.
ToLowerCaseKeepsCase(s) == s

\* String.prototype.toLowerCase
ToLowerCase(s) == [i \in DOMAIN s |-> ToLowerCaseChar(s[i])]

\* String.prototype.includes
Includes(s, t) ==
    \E i \in 0 .. (Len(s) - Len(t)) : SubSeq(s, i + 1, i + Len(t)) = t

StrRain == <<"r", "a", "i", "n">>
StrCloud == <<"c", "l", "o", "u", "d">>

\* conditions.toLowerCase().includes('rain') and
\* conditions.toLowerCase().includes('cloud'), tabulated over the labels of
\* the model.
RainLike == [c \in Conditions |-> Includes(ToLowerCase(c), StrRain)]
CloudLike == [c \in Conditions |-> Includes(ToLowerCase(c), StrCloud)]

IsRain(w) == RainLike[w.conditions]
IsCloud(w) == CloudLike[w.conditions]

-----------------------------------------------------------------------------
(* Arithmetic. *)

CeilDiv(n, d) == (n + d - 1) \div d

\* The binary32 values of a Float32Array are modelled by a grid coarser than
\* the doubles of the computation: a store rounds to the nearest grid value,
\* ties to the even one.
Float32Step == Unit \div 20

ToFloat32(v) ==
    LET q == v \div Float32Step
        r == v % Float32Step
    IN  IF 2 * r < Float32Step THEN q * Float32Step
        ELSE IF 2 * r > Float32Step THEN (q + 1) * Float32Step
        ELSE (IF q % 2 = 0 THEN q ELSE q + 1) * Float32Step

\* floor(log2(n / d)) for n, d > 0
RECURSIVE Log2Floor(_, _)
Log2Floor(n, d) ==
    IF n >= 2 * d THEN 1 + Log2Floor(n, 2 * d)
    ELSE IF n < d THEN Log2Floor(2 * n, d) - 1
    ELSE 0

\* 2^k mod m
RECURSIVE PowerOfTwoMod(_, _)
PowerOfTwoMod(k, m) == IF k = 0 THEN 1 % m ELSE (2 * PowerOfTwoMod(k - 1, m)) % m

\* humidity / 100 in binary64.  The quotient keeps 53 significant bits: with
\* e == floor(log2(h / 100)) it is the multiple of 2^(e - 52) nearest to
\* h / 100.  The result is the signed rounding error in units of
\* 2^(e - 52) / 100 (no tie occurs: 2^(52 - e) * h is a multiple of 4).
HumidityRatioError(h) ==
    LET k == 52 - Log2Floor(h, 100)
        rem == (h * PowerOfTwoMod(k, 100)) % 100
    IN  IF 2 * rem < 100 THEN 0 - rem ELSE 100 - rem

\* Math.floor(5000 * (humidity / 100)) in binary64.  The exact product is
\* 50 h + 50 err / 2^(52 - e); 50 h is a binary64 value whose neighbours lie
\* 2^(E - 52) away, E == floor(log2(50 h)), so the product rounds below 50 h
\* exactly when err < 0 and 50 |err| / 2^(E - e) > 1 / 2, and its floor is
\* then 50 h - 1.
FloorOfScaledRatio(h) ==
    IF h = 0 THEN 0
    ELSE LET err == HumidityRatioError(h)
             gap == 2 ^ (Log2Floor(50 * h, 1) - Log2Floor(h, 100))
         IN  IF err < 0 /\ 100 * (0 - err) > gap THEN 50 * h - 1 ELSE 50 * h

\* particleCount, tabulated over the humidities of the model.
ParticleCounts == [h \in Humidities |-> FloorOfScaledRatio(h)]

ParticleCount(h) == ParticleCounts[h]

\* 0.001 + (humidity / 100) * 0.002, in millionths
FogDensity(h) == 1000 + h * 20

\* A mutation of CloudCount: the loop stops one pass early when cloudCount
\* is not whole.
CloudCountFloored(w) ==
    IF IsRain(w) THEN (150 + w.windSpeed * 2) \div 10
    ELSE IF IsCloud(w) THEN (100 + w.windSpeed) \div 10
    ELSE 5

\* The number of passes of `for (i = 0; i < cloudCount; i++)`, cloudCount
\* being 15 + windSpeed * 2, 10 + windSpeed or 5.
CloudCount(w) ==
    IF IsRain(w) THEN CeilDiv(150 + w.windSpeed * 2, 10)
    ELSE IF IsCloud(w) THEN CeilDiv(100 + w.windSpeed, 10)
    ELSE 5

-----------------------------------------------------------------------------
(* The engine as a value: the fields of the WeatherEffects object, the     *)
(* scene they point into, and the allocator of object identities.  The     *)
(* private methods are functions from engine to engine, composed in the    *)
(* order in which the code calls them.                                     *)

Engine ==
    [weatherState |-> weatherState, clouds |-> clouds,
     rainParticles |-> rainParticles, windLines |-> windLines, fog |-> fog,
     windIndicator |-> windIndicator, windArrow |-> windArrow, scene |-> scene,
     gpuResources |-> gpuResources, nextId |-> nextId]

\* scene.add(object)
SceneAdd(e, obj, kind) ==
    [e EXCEPT !.scene.children = @ \cup {[id |-> obj.id, kind |-> kind]}]

\* A mutation of SceneRemove: the old object stays in the scene.
SceneRemoveForgotten(e, obj) == e

\* scene.remove(object)
SceneRemove(e, obj) ==
    [e EXCEPT !.scene.children = {c \in @ : c.id # obj.id}]

\* `new` of an effect instance with its geometries, materials and textures
Construct(e, kind) ==
    [e EXCEPT !.gpuResources = @ \cup {[id |-> e.nextId, kind |-> kind]},
              !.nextId = @ + 1]

\* A mutation of UpdateFog: the fog is built once and kept.
UpdateFogOnce(e) ==
    IF e.fog # Null THEN e
    ELSE LET f == [id |-> e.nextId, density |-> FogDensity(e.weatherState.humidity)]
         IN  [e EXCEPT !.fog = f, !.scene.fog = f, !.nextId = @ + 1]

\* A mutation of UpdateFog: the new fog is kept in the handle and not given
\* to the scene.
UpdateFogDetached(e) ==
    LET e1 == IF e.fog # Null THEN [e EXCEPT !.scene.fog = Null] ELSE e
        f == [id |-> e.nextId, density |-> FogDensity(e.weatherState.humidity)]
    IN  [e1 EXCEPT !.fog = f, !.nextId = @ + 1]

\* updateFog
UpdateFog(e) ==
    LET e1 == IF e.fog # Null THEN [e EXCEPT !.scene.fog = Null] ELSE e
        f == [id |-> e.nextId, density |-> FogDensity(e.weatherState.humidity)]
    IN  [e1 EXCEPT !.fog = f, !.scene.fog = f, !.nextId = @ + 1]

\* scene.children.find(child => child instanceof THREE.AmbientLight): the
\* index of the first such light, 0 when there is none
FindAmbientLight(lights) ==
    LET hits == {i \in DOMAIN lights : lights[i].type = "AmbientLight"}
    IN  IF hits = {} THEN 0 ELSE CHOOSE i \in hits : \A j \in hits : i <= j

\* scene.children.find(child => child instanceof THREE.DirectionalLight &&
\* child.position.y > 20)
FindDirectionalLight(lights) ==
    LET hits == {i \in DOMAIN lights :
                    lights[i].type = "DirectionalLight" /\ lights[i].y > 20}
    IN  IF hits = {} THEN 0 ELSE CHOOSE i \in hits : \A j \in hits : i <= j

\* A mutation of UpdateLighting: the ambient light is dimmed for rain only.
UpdateLightingMixed(e) ==
    LET a == FindAmbientLight(e.scene.lights)
        d == FindDirectionalLight(e.scene.lights)
    IN  IF a # 0 /\ d # 0
        THEN IF IsRain(e.weatherState) \/ IsCloud(e.weatherState)
             THEN [e EXCEPT !.scene.lights[a].intensity =
                                IF IsRain(e.weatherState) THEN 4 ELSE 6,
                            !.scene.lights[d].intensity = 5,
                            !.scene.lights[d].color = 13421823]
             ELSE [e EXCEPT !.scene.lights[a].intensity = 6,
                            !.scene.lights[d].intensity = 8,
                            !.scene.lights[d].color = 16774374]
        ELSE e

\* updateLighting
UpdateLighting(e) ==
    LET a == FindAmbientLight(e.scene.lights)
        d == FindDirectionalLight(e.scene.lights)
    IN  IF a # 0 /\ d # 0
        THEN IF IsRain(e.weatherState) \/ IsCloud(e.weatherState)
             THEN [e EXCEPT !.scene.lights[a].intensity = 4,
                            !.scene.lights[d].intensity = 5,
                            !.scene.lights[d].color = 13421823]   \* 0xccccff
             ELSE [e EXCEPT !.scene.lights[a].intensity = 6,
                            !.scene.lights[d].intensity = 8,
                            !.scene.lights[d].color = 16774374]   \* 0xfff4e6
        ELSE e

\* A mutation of UpdateClouds: the previous group is not removed.
UpdateCloudsKeepsOld(e) ==
    LET cloudGroup == [id |-> e.nextId, count |-> CloudCount(e.weatherState), x |-> 0]
        e2 == Construct(e, "clouds")
    IN  [SceneAdd(e2, cloudGroup, "clouds") EXCEPT !.clouds = cloudGroup]

\* A mutation of UpdateClouds: the new group also holds the clouds of the
\* group before it.
UpdateCloudsAccumulates(e) ==
    LET e1 == IF e.clouds # Null THEN SceneRemove(e, e.clouds) ELSE e
        cloudGroup == [id |-> e.nextId,
                       count |-> CloudCount(e.weatherState)
                                     + (IF e.clouds # Null THEN e.clouds.count ELSE 0),
                       x |-> 0]
        e2 == Construct(e1, "clouds")
    IN  [SceneAdd(e2, cloudGroup, "clouds") EXCEPT !.clouds = cloudGroup]

\* updateClouds.  The scale and the place of each cloud inside the group
\* are random and never read again; the group keeps its count and its own
\* position.x, which animate moves.
UpdateClouds(e) ==
    LET e1 == IF e.clouds # Null THEN SceneRemove(e, e.clouds) ELSE e
        cloudGroup == [id |-> e.nextId, count |-> CloudCount(e.weatherState), x |-> 0]
        e2 == Construct(e1, "clouds")
    IN  [SceneAdd(e2, cloudGroup, "clouds") EXCEPT !.clouds = cloudGroup]

\* The slots of one rain particle: Math.random() * 100 - 50,
\* Math.random() * 50, Math.random() * 100 - 50, stored in a Float32Array.
RainParticle(r) ==
    <<ToFloat32(r[1] * RandUnit * 100 - 50 * Unit),
      ToFloat32(r[2] * RandUnit * 50),
      ToFloat32(r[3] * RandUnit * 100 - 50 * Unit)>>

\* updateRain.  r holds the draws of the first particle (empty when the
\* buffer is not followed or holds no particle).
UpdateRain(e, r) ==
    LET e1 == IF e.rainParticles # Null
              THEN [SceneRemove(e, e.rainParticles) EXCEPT !.rainParticles = Null]
              ELSE e
    IN  IF ~IsRain(e.weatherState) THEN e1
        ELSE LET rain == [id |-> e.nextId,
                          count |-> ParticleCount(e.weatherState.humidity),
                          positions |-> IF r = <<>> THEN <<>> ELSE RainParticle(r)]
                 e2 == Construct(e1, "rain")
             IN  [SceneAdd(e2, rain, "rain") EXCEPT !.rainParticles = rain]

\* windSpeed * (0.5 + Math.random())
StreakLength(windSpeed, r) == (windSpeed * (Unit \div 2 + r * RandUnit)) \div 10

\* The x slots of one streak, positions[i * 6] and positions[i * 6 + 3]:
\* x == Math.random() * 100 - 50 and x - windSpeed * (0.5 + Math.random()).
\* The y and z slots are written with random values and never read by the
\* engine; the model does not carry them.
WindStreak(windSpeed, r) ==
    LET x == r[1] * RandUnit * 100 - 50 * Unit
    IN  <<ToFloat32(x), ToFloat32(x - StreakLength(windSpeed, r[2]))>>

\* A mutation of UpdateWind: streaks are built at 3 m/s too.
UpdateWindAtThreshold(e, r) ==
    LET e1 == IF e.windLines # Null
              THEN [SceneRemove(e, e.windLines) EXCEPT !.windLines = Null]
              ELSE e
    IN  IF e.weatherState.windSpeed < 30 THEN e1
        ELSE LET lines == [id |-> e.nextId, count |-> 50,
                           positions |-> IF r = <<>> THEN <<>>
                                         ELSE WindStreak(e.weatherState.windSpeed, r)]
                 e2 == Construct(e1, "windLines")
             IN  [SceneAdd(e2, lines, "windLines") EXCEPT !.windLines = lines]

\* updateWind.  r holds the draws of the first streak (empty when the
\* buffer is not followed).
UpdateWind(e, r) ==
    LET e1 == IF e.windLines # Null
              THEN [SceneRemove(e, e.windLines) EXCEPT !.windLines = Null]
              ELSE e
    IN  IF e.weatherState.windSpeed <= 30 THEN e1
        ELSE LET lines == [id |-> e.nextId, count |-> 50,
                           positions |-> IF r = <<>> THEN <<>>
                                         ELSE WindStreak(e.weatherState.windSpeed, r)]
                 e2 == Construct(e1, "windLines")
             IN  [SceneAdd(e2, lines, "windLines") EXCEPT !.windLines = lines]

\* createWindDirectionIndicator: the compass group (base, four labels, the
\* arrow) is added to the scene; the arrow mesh starts unrotated, scale 1.
CreateWindDirectionIndicator(e) ==
    LET group == [id |-> e.nextId]
        arrow == [id |-> e.nextId + 1, rotationZ |-> 0, scale |-> 100]
        e1 == [Construct(e, "windIndicator") EXCEPT !.nextId = @ + 1]
    IN  [SceneAdd(e1, group, "windIndicator") EXCEPT
            !.windArrow = arrow, !.windIndicator = group]

\* updateWindDirection
UpdateWindDirection(e) ==
    IF e.windArrow = Null \/ e.weatherState = Null THEN e
    ELSE [e EXCEPT !.windArrow.rotationZ = e.weatherState.windDirection - 180,
                   !.windArrow.scale = 100 + e.weatherState.windSpeed]

\* A mutation of UpdateIndicator: the indicator is never taken away.
UpdateIndicatorNeverRemoves(e) ==
    IF e.weatherState.windSpeed > 0
    THEN UpdateWindDirection(
             IF e.windIndicator = Null THEN CreateWindDirectionIndicator(e) ELSE e)
    ELSE e

\* A mutation of UpdateIndicator: the arrow is set when the indicator is
\* created and not afterwards.
UpdateIndicatorSetsArrowOnce(e) ==
    IF e.weatherState.windSpeed > 0
    THEN IF e.windIndicator = Null
         THEN UpdateWindDirection(CreateWindDirectionIndicator(e))
         ELSE e
    ELSE IF e.windIndicator # Null
    THEN [SceneRemove(e, e.windIndicator) EXCEPT
             !.windIndicator = Null, !.windArrow = Null]
    ELSE e

\* The wind-indicator branch that ends updateEffects.
UpdateIndicator(e) ==
    IF e.weatherState.windSpeed > 0
    THEN UpdateWindDirection(
             IF e.windIndicator = Null THEN CreateWindDirectionIndicator(e) ELSE e)
    ELSE IF e.windIndicator # Null
    THEN [SceneRemove(e, e.windIndicator) EXCEPT
             !.windIndicator = Null, !.windArrow = Null]
    ELSE e

\* updateEffects
UpdateEffects(e, rainDraws, windDraws) ==
    IF e.weatherState = Null THEN e
    ELSE UpdateIndicator(
             UpdateWind(
                 UpdateRain(UpdateClouds(UpdateLighting(UpdateFog(e))), rainDraws),
                 windDraws))

\* updateWeather(weather)
UpdateWeatherCall(e, weather, rainDraws, windDraws) ==
    UpdateEffects([e EXCEPT !.weatherState = weather], rainDraws, windDraws)

\* updateWeather(weather) for a weather without conditions, up to the
\* exception that ends it: the state is stored, updateFog runs, and the
\* first conditions.toLowerCase() throws a TypeError, in updateLighting when
\* both lights are found, else in updateClouds after the old group was
\* removed from the scene.
UpdateWeatherThrown(e, weather) ==
    LET e1 == UpdateFog([e EXCEPT !.weatherState = weather])
    IN  IF /\ FindAmbientLight(e1.scene.lights) # 0
           /\ FindDirectionalLight(e1.scene.lights) # 0
        THEN e1
        ELSE IF e1.clouds # Null THEN SceneRemove(e1, e1.clouds) ELSE e1

-----------------------------------------------------------------------------
(* animate(delta) and dispose(). *)

\* A mutation of AnimateClouds: the group drifts on beyond 60.
AnimateCloudsNoWrap(e, delta) ==
    IF e.clouds # Null /\ e.weatherState # Null
    THEN [e EXCEPT !.clouds.x = @ + e.weatherState.windSpeed * delta * (Unit \div 200)]
    ELSE e

\* The cloud branch of animate: position.x += windSpeed * delta * 0.05,
\* and back to -60 once beyond 60.  position.x is a double.
AnimateClouds(e, delta) ==
    IF e.clouds # Null /\ e.weatherState # Null
    THEN LET x == e.clouds.x + e.weatherState.windSpeed * delta * (Unit \div 200)
         IN  [e EXCEPT !.clouds.x = IF x > 60 * Unit THEN 0 - 60 * Unit ELSE x]
    ELSE e

\* positions[i + 1] -= 10 * delta, read back from the Float32Array
RainFall(y, delta) == ToFloat32(y - 10 * delta * Unit)

\* A mutation of RainReset: the height is drawn as at creation, from the
\* ground up.
RainResetFromGround(r) ==
    <<ToFloat32(r[2] * RandUnit * 100 - 50 * Unit),
      ToFloat32(r[1] * RandUnit * 50),
      ToFloat32(r[3] * RandUnit * 100 - 50 * Unit)>>

\* The three stores of the reset: 20 + Math.random() * 30, then
\* Math.random() * 100 - 50 twice; r holds the draws in the order of the code.
RainReset(r) ==
    <<ToFloat32(r[2] * RandUnit * 100 - 50 * Unit),
      ToFloat32(20 * Unit + r[1] * RandUnit * 30),
      ToFloat32(r[3] * RandUnit * 100 - 50 * Unit)>>

\* A mutation of AnimateParticle: the particle falls and is never reset.
AnimateParticleNoReset(p, delta, r) == <<p[1], RainFall(p[2], delta), p[3]>>

\* One pass of the rain loop of animate over the particle <<x, y, z>>.
AnimateParticle(p, delta, r) ==
    IF RainFall(p[2], delta) < 0 THEN RainReset(r)
    ELSE <<p[1], RainFall(p[2], delta), p[3]>>

\* A mutation of AnimateRain: the frame builds a new rain instance for the
\* moved particles.
AnimateRainReallocates(e, delta, r) ==
    IF e.rainParticles # Null /\ e.weatherState # Null /\ e.rainParticles.positions # <<>>
    THEN LET rain == [id |-> e.nextId, count |-> e.rainParticles.count,
                      positions |-> AnimateParticle(e.rainParticles.positions, delta, r)]
             e1 == Construct(SceneRemove(e, e.rainParticles), "rain")
         IN  [SceneAdd(e1, rain, "rain") EXCEPT !.rainParticles = rain]
    ELSE e

\* The rain branch of animate.
AnimateRain(e, delta, r) ==
    IF e.rainParticles # Null /\ e.weatherState # Null /\ e.rainParticles.positions # <<>>
    THEN [e EXCEPT !.rainParticles.positions = AnimateParticle(@, delta, r)]
    ELSE e

\* positions[i] -= windSpeed * delta * 0.2, read back from the Float32Array
StreakMove(x, windSpeed, delta) == ToFloat32(x - windSpeed * delta * (Unit \div 50))

\* A mutation of AnimateStreak: the streak moves and never restarts.
AnimateStreakNoReset(s, windSpeed, delta, r) ==
    <<StreakMove(s[1], windSpeed, delta), StreakMove(s[2], windSpeed, delta)>>

\* One pass of the wind loop of animate over the x slots <<start, end>> of
\* a streak: both move, and a start below -60 restarts the streak at 60.
AnimateStreak(s, windSpeed, delta, r) ==
    IF StreakMove(s[1], windSpeed, delta) < 0 - 60 * Unit
    THEN <<ToFloat32(60 * Unit), ToFloat32(60 * Unit - StreakLength(windSpeed, r[1]))>>
    ELSE <<StreakMove(s[1], windSpeed, delta), StreakMove(s[2], windSpeed, delta)>>

\* The wind branch of animate.
AnimateWind(e, delta, r) ==
    IF e.windLines # Null /\ e.weatherState # Null /\ e.windLines.positions # <<>>
    THEN [e EXCEPT !.windLines.positions =
                       AnimateStreak(@, e.weatherState.windSpeed, delta, r)]
    ELSE e

\* animate(delta)
AnimateCall(e, delta, rainDraws, windDraws) ==
    AnimateWind(AnimateRain(AnimateClouds(e, delta), delta, rainDraws), delta, windDraws)

\* A mutation of DisposeCall: the fog of the scene is taken away without
\* looking at the engine's handle.
DisposeCallUnguarded(e) ==
    LET e1 == SceneRemove(e, e.clouds)
        e2 == SceneRemove(e1, e.rainParticles)
        e3 == SceneRemove(e2, e.windLines)
        e4 == [e3 EXCEPT !.scene.fog = Null]
    IN  SceneRemove(e4, e.windIndicator)

\* dispose(): the handles are detached from the scene and kept.
DisposeCall(e) ==
    LET e1 == IF e.clouds # Null THEN SceneRemove(e, e.clouds) ELSE e
        e2 == IF e.rainParticles # Null THEN SceneRemove(e1, e.rainParticles) ELSE e1
        e3 == IF e.windLines # Null THEN SceneRemove(e2, e.windLines) ELSE e2
        e4 == IF e.fog # Null THEN [e3 EXCEPT !.scene.fog = Null] ELSE e3
    IN  IF e.windIndicator # Null THEN SceneRemove(e4, e.windIndicator) ELSE e4

-----------------------------------------------------------------------------
(* The Field component: values and the steps of its mount effect. *)

\* The texture loads of loadTextures.
TextureCount == 7
\* The billboards of createGrass.
GrassCount == 200
\* The grid of createPlantField.
Rows == 3
Cols == 5
\* The items that gltfLoader.loadAsync registers with the loading manager:
\* the GLTFLoader's own and that of the FileLoader it reads the file with.
PlantItems == 2

MessageTextures == "Loading textures..."
MessagePlants == "Loading plants..."
MessageCrops == "Planting crops..."
MessageFailed == "Failed to load. Please refresh."

\* Sizes of the window.
WindowSizes == {800, 1024}

\* Values the weather service answers with, as fetchWeather stores them.
FetchedWeather ==
    {[conditions |-> LabelRain, temperature |-> 18, humidity |-> 57,
      windSpeed |-> 35, windDeg |-> 270],
     [conditions |-> LabelClear, temperature |-> 18, humidity |-> 0,
      windSpeed |-> 0, windDeg |-> 90]}

\* The onWeatherUpdate prop of the Weather element that Field renders: the
\* element is given lat and lon only.
OnWeatherUpdate == Null

\* Math.round(n / d) for n >= 0, d > 0
Round(n, d) == (2 * n + d) \div (2 * d)

\* loadingManager.onProgress: Math.round((itemsLoaded / itemsTotal) * 100)
OnProgress(loaded, total) == Round(100 * loaded, total)

\* The geometries and materials of the scene parts.  The grass billboards
\* share one geometry and one material; so do the clones of the plant.
Resources ==
    {"groundGeometry", "groundMaterial", "grassGeometry", "grassMaterial",
     "plantGeometry", "plantMaterial"}

\* The meshes of the scene that use a resource, given the parts built.
MeshesUsing(r, parts) ==
    CASE r \in {"groundGeometry", "groundMaterial"} ->
             IF "terrain" \in parts THEN 1 ELSE 0
      [] r \in {"grassGeometry", "grassMaterial"} ->
             IF "grass" \in parts THEN GrassCount ELSE 0
      [] r \in {"plantGeometry", "plantMaterial"} ->
             IF "plants" \in parts THEN Rows * Cols ELSE 0

\* The resources reachable from the scene.
ReachableResources(parts) == {r \in Resources : MeshesUsing(r, parts) > 0}

\* scene.traverse of the cleanup: every mesh disposes its geometry and its
\* material.
TraverseDispose(parts, received) ==
    [r \in Resources |-> received[r] + MeshesUsing(r, parts)]

\* A mutation of CleanupScene: the mount reference is used unchecked.
CleanupSceneUnchecked(mountAttached, canvas, rendererGone) ==
    IF mountAttached /\ canvas
    THEN [canvasMounted |-> FALSE, rendererDisposed |-> TRUE, thrown |-> FALSE]
    ELSE [canvasMounted |-> canvas, rendererDisposed |-> rendererGone, thrown |-> TRUE]

\* cleanupScene(renderer): mountAttached says whether mountRef.current is
\* set when the cleanup runs; removeChild throws when the canvas is not a
\* child of the mount element.
CleanupScene(mountAttached, canvas, rendererGone) ==
    IF mountAttached
    THEN IF canvas
         THEN [canvasMounted |-> FALSE, rendererDisposed |-> TRUE, thrown |-> FALSE]
         ELSE [canvasMounted |-> canvas, rendererDisposed |-> rendererGone,
               thrown |-> TRUE]
    ELSE [canvasMounted |-> canvas, rendererDisposed |-> rendererGone, thrown |-> FALSE]


\* The names of the TextureMaps, in the order of texturePromises.
TextureRoles ==
    {"soilColor", "soilNormal", "soilRoughness", "soilDisplacement",
     "grassColor", "grassNormal", "grassRoughness"}

\* A texture as its loader hands it over: the wrap mode, the repeat factor
\* and the color space that the post-processing is about to set.
Loaded(role) ==
    [wrapS |-> "ClampToEdgeWrapping", wrapT |-> "ClampToEdgeWrapping",
     repeat |-> <<1, 1>>, colorSpace |-> "NoColorSpace"]

\* The body of textures.forEach in loadTextures.
PostProcess(role, tex) ==
    [tex EXCEPT !.wrapS = "RepeatWrapping",
                !.wrapT = "RepeatWrapping",
                !.repeat = <<4, 4>>,
                !.colorSpace = IF role # "grassNormal" THEN "SRGBColorSpace" ELSE @]

\* initializeScene up to its first await: setupLighting, then the call of
\* loadTextures.
BeforeTextures == <<"setupLighting", "loadTextures">>

\* A mutation of AfterTextures: the grass is made before the terrain.
AfterTexturesGrassFirst == <<"createGrass", "createTerrain", "loadPlantModels">>

\* initializeScene between its two awaits.
AfterTextures == <<"createTerrain", "createGrass", "loadPlantModels">>

\* initializeScene after its second await; createPlantField returns at
\* once when the list of models is empty.
AfterPlants == <<"createPlantField", "setLoading(false)">>

\* The catch of initializeScene.
OnFailure == <<"setLoadingMessage(failed)">>

\* What one run of animate does, in its order.
FrameSteps == <<"requestAnimationFrame", "mixers", "controls", "render">>

\* The callbacks that are pending after the frame callback has run: the
\* browser has taken the callback off its list and animate has requested
\* the next one.
FrameRequestsTwice(pending) == (pending - 1) + 2
FrameRequests(pending) == (pending - 1) + 1

\* The component once its mount effect has run: the renderer's canvas is in
\* the mount element, the resize listener is registered, initializeScene
\* has set up the lights and waits for the seven textures, and the first
\* frame has requested the next.
FieldMounted ==
    /\ initPhase = "textures"
    /\ texturesLoaded = 0
    /\ texturesFailed = 0
    /\ plantLoad = "idle"
    /\ itemsLoaded = 0
    /\ itemsTotal = TextureCount
    /\ progress = 0
    /\ loading = TRUE
    /\ loadingMessage = MessageTextures
    /\ built = {}
    /\ mixers = 0
    /\ disposeCalls = [r \in Resources |-> 0]
    /\ pendingFrames = 1
    /\ frames = 0
    /\ resizeListener = TRUE
    /\ windowSize = 800
    /\ rendererSize = 800
    /\ canvasMounted = TRUE
    /\ rendererDisposed = FALSE
    /\ tornDown = FALSE
    /\ coordinates = FALSE
    /\ weatherData = Null
    /\ fetches = 0
    /\ textureMaps = Null
    /\ plantField = [groups |-> 0, grouped |-> 0, loose |-> 0]
    /\ constructionLog = BeforeTextures

-----------------------------------------------------------------------------
(* The terrain generators: createTerrain of Field.tsx and the deformation  *)
(* loop of src/unnamed/part_001.  Angles and the values of sin, cos and    *)
(* exp are kept in 1/Trig; heights in 1/Unit.  The heights stay below 64,  *)
(* where neighbouring binary32 values are closer than 1/Unit: the          *)
(* Float32Array keeps them as computed.                                    *)

Trig == 10 ^ 4
\* PI and 2 PI, in 1/Trig
Pi == 31416
TwoPi == 62832

Abs(n) == IF n < 0 THEN 0 - n ELSE n

\* The terms of a power series after `term`, the next one being
\* term * factor / (n * m) in fixed point; the series ends when a term
\* vanishes at the resolution of the model.
RECURSIVE SeriesFrom(_, _, _, _)
SeriesFrom(term, a, n, sign) ==
    IF term = 0 THEN 0
    ELSE LET next == ((((term * a) \div Trig) \div n) * a) \div (Trig * (n + 1))
         IN  sign * term + SeriesFrom(next, a, n + 2, 0 - sign)

\* An angle brought into (-PI, PI]
ReduceAngle(a) ==
    LET m == a % TwoPi
    IN  IF m > Pi THEN m - TwoPi ELSE m

\* Math.sin and Math.cos of an angle in 1/Trig radians: the series
\* a - a^3/3! + a^5/5! - ... and 1 - a^2/2! + a^4/4! - ...
Sin(a) ==
    LET b == ReduceAngle(a)
    IN  IF b >= 0 THEN SeriesFrom(b, b, 2, 1) ELSE 0 - SeriesFrom(0 - b, 0 - b, 2, 1)
Cos(a) == SeriesFrom(Trig, Abs(ReduceAngle(a)), 1, 1)

\* The terms of exp(-t) after `term`: 1 - t + t^2/2! - ...
RECURSIVE ExpSeriesFrom(_, _, _, _)
ExpSeriesFrom(term, t, n, sign) ==
    IF term = 0 THEN 0
    ELSE sign * term + ExpSeriesFrom((term * t) \div (Trig * n), t, n + 1, 0 - sign)

\* Math.exp(-t) for 0 <= t < 1, t in 1/Trig
ExpNeg(t) == ExpSeriesFrom(Trig, t, 1, 1)

\* new THREE.PlaneGeometry(100, 100, 100, 100): 101 rows of 101 vertices
\* one unit apart, row by row from y = 50 down, each row from x = -50 up,
\* all at z = 0.  Vertex k holds positions[3 k .. 3 k + 2].
Segments == 100
VertexCount == (Segments + 1) * (Segments + 1)
VertexX(k) == (k % (Segments + 1)) - 50
VertexY(k) == 50 - (k \div (Segments + 1))

RowYPositions == {0 - 10, 0, 10}
RowWidth == 3

\* createTerrain: 0.3 * Math.exp(-Math.pow((y - rowY) / rowWidth, 4)) when
\* Math.abs(y - rowY) < rowWidth
RowBump(y, rowY) ==
    IF Abs(y - rowY) < RowWidth
    THEN LET dy == y - rowY
         IN  3 * ExpNeg((dy * dy * dy * dy * Trig) \div (RowWidth * RowWidth * RowWidth * RowWidth))
    ELSE 0

\* createTerrain: the bumps that rowYPositions.forEach adds to a vertex.
\* The rows lie ten apart, so at most one of them is within rowWidth.
TerrainBump(y) ==
    IF \E rowY \in RowYPositions : Abs(y - rowY) < RowWidth
    THEN RowBump(y, CHOOSE rowY \in RowYPositions : Abs(y - rowY) < RowWidth)
    ELSE 0

\* createTerrain: 0.05 * (Math.sin(x * 0.1) * Math.cos(y * 0.1) +
\*                        0.03 * Math.sin(x * 0.3) * Math.cos(y * 0.3))
NoiseValue(x, y) ==
    LET wide == (Sin((x * Trig) \div 10) * Cos((y * Trig) \div 10)) \div Trig
        fine == (Sin((3 * x * Trig) \div 10) * Cos((3 * y * Trig) \div 10)) \div Trig
    IN  (wide + (3 * fine) \div 100) \div 2

\* createTerrain: the height of vertex k after the loop; positions[i + 2]
\* is 0 before.
CreateTerrainHeight(k) == 0 + TerrainBump(VertexY(k)) + NoiseValue(VertexX(k), VertexY(k))

\* part_001: 0.3 * Math.exp(-Math.pow((y - rowY) / rowWidth, 2))
RowBumpSquared(y, rowY) ==
    LET dy == y - rowY
    IN  3 * ExpNeg((dy * dy * Trig) \div (RowWidth * RowWidth))

\* part_001: the height of vertex k after the loop.  z is read from
\* positions[i + 3], the x slot of the vertex that follows in the array;
\* inside a row band the height becomes z + bump, elsewhere it stays 0;
\* then (Math.random() - 0.5) * 0.05 is added, r being the draw.
DeformTerrainHeight(k, r) ==
    LET y == VertexY(k)
        z == VertexX(k + 1) * Unit
        banded == IF \E rowY \in RowYPositions : Abs(y - rowY) < RowWidth
                  THEN z + RowBumpSquared(y, CHOOSE rowY \in RowYPositions :
                                                    Abs(y - rowY) < RowWidth)
                  ELSE 0
    IN  banded + (r * RandUnit - Unit \div 2) \div 20

-----------------------------------------------------------------------------
(* lib/mongodb.ts.  A call of dbConnect runs from its start to its await   *)
(* in one piece; the continuation of the await is a microtask that is      *)
(* queued when the awaited promise settles, or at the await when it has    *)
(* settled before; microtasks run first in first out.                      *)

Callers == 1 .. MaxCallers
Attempts == 1 .. MaxAttempts

\* The module after its import: `cached` is { conn: null, promise: null }.
DbLoaded ==
    /\ cachedConn = Null
    /\ cachedPromise = 0
    /\ attempts = [p \in Attempts |-> "unused"]
    /\ waiters = [p \in Attempts |-> <<>>]
    /\ callerAt = [c \in Callers |-> "idle"]
    /\ awaited = [c \in Callers |-> 0]
    /\ jobs = <<>>
    /\ dbCalls = 0

\* The attempts that mongoose.connect has not settled yet.
InFlight == {p \in Attempts : attempts[p] = "pending"}

\* The promise that the next mongoose.connect(...) chain of the model is.
NextAttempt == CHOOSE p \in Attempts : attempts[p] = "unused" /\ \A q \in Attempts :
                                            attempts[q] = "unused" => p <= q

\* The cache as a value, for the two halves of dbConnect.
Cache ==
    [conn |-> cachedConn, promise |-> cachedPromise, attempts |-> attempts,
     waiters |-> waiters, callerAt |-> callerAt, awaited |-> awaited, jobs |-> jobs]

\* dbConnect from its first line to `await cached.promise`, for caller c.
DbConnectEnter(d, c) ==
    IF d.conn # Null
    THEN [d EXCEPT !.callerAt[c] = "returned"]
    ELSE LET fresh == d.promise = 0
             p == IF fresh THEN NextAttempt ELSE d.promise
             d1 == IF fresh
                   THEN [d EXCEPT !.promise = p, !.attempts[p] = "pending"]
                   ELSE d
         IN  IF d1.attempts[p] = "pending"
             THEN [d1 EXCEPT !.callerAt[c] = "awaiting", !.awaited[c] = p,
                             !.waiters[p] = Append(@, c)]
             ELSE [d1 EXCEPT !.callerAt[c] = "awaiting", !.awaited[c] = p,
                             !.jobs = Append(@, [kind |-> "resume", caller |-> c])]

\* dbConnect after the await, for caller c: the try stores the connection
\* and returns it, the catch clears cached.promise and throws.
DbConnectResume(d, c) ==
    IF d.attempts[d.awaited[c]] = "resolved"
    THEN [d EXCEPT !.conn = [id |-> 1], !.callerAt[c] = "returned"]
    ELSE [d EXCEPT !.promise = 0, !.callerAt[c] = "threw"]

\* The cache after a step.
CommitDb(d) ==
    /\ cachedConn' = d.conn
    /\ cachedPromise' = d.promise
    /\ attempts' = d.attempts
    /\ waiters' = d.waiters
    /\ callerAt' = d.callerAt
    /\ awaited' = d.awaited
    /\ jobs' = d.jobs

\* A caller that is not inside dbConnect gets to call it: the call is the
\* continuation of an await of the caller's own.
Arrive ==
    /\ dbCalls < MaxDbCalls
    /\ \E c \in Callers :
        /\ callerAt[c] \in {"idle", "returned", "threw"}
        /\ CommitDb([Cache EXCEPT !.callerAt[c] = "queued", !.awaited[c] = 0,
                                  !.jobs = Append(@, [kind |-> "call", caller |-> c])])
    /\ dbCalls' = dbCalls + 1
    /\ UNCHANGED <<engineVars, thrown, lastCall, fieldVars, terrainVars,
                   pollVars>>

\* mongoose.connect settles an attempt: the continuations of the callers
\* suspended on it are queued in the order of their awaits.
RECURSIVE ResumeJobs(_)
ResumeJobs(cs) ==
    IF cs = <<>> THEN <<>>
    ELSE <<[kind |-> "resume", caller |-> Head(cs)]>> \o ResumeJobs(Tail(cs))

Settle ==
    /\ \E p \in InFlight, outcome \in {"resolved", "rejected"} :
        CommitDb([Cache EXCEPT !.attempts[p] = outcome,
                               !.waiters[p] = <<>>,
                               !.jobs = @ \o ResumeJobs(waiters[p])])
    /\ UNCHANGED <<dbCalls, engineVars, thrown, lastCall, fieldVars, terrainVars,
                   pollVars>>

\* The first microtask of the queue runs.
RunJob ==
    /\ jobs # <<>>
    /\ LET job == Head(jobs)
           d == [Cache EXCEPT !.jobs = Tail(jobs)]
       IN  IF job.kind = "call"
           THEN /\ (d.conn = Null /\ d.promise = 0) => \E p \in Attempts : attempts[p] = "unused"
                /\ CommitDb(DbConnectEnter(d, job.caller))
           ELSE CommitDb(DbConnectResume(d, job.caller))
    /\ UNCHANGED <<dbCalls, engineVars, thrown, lastCall, fieldVars, terrainVars,
                   pollVars>>

-----------------------------------------------------------------------------
(* The Weather component: Weather.tsx, which closes over lat and lon, and  *)
(* src/unnamed/part_000, which closes over the city.                       *)

\* The cities, or coordinate pairs, of the model.
Queries == {"first", "second"}

\* The element after its first render, before its effect has run.
WeatherMounted ==
    /\ query = "first"
    /\ requests = 0
    /\ outstanding = {}
    /\ succeeded = {}
    /\ shownWeather = Null
    /\ handedOver = Null
    /\ fetchError = FALSE

\* fetchWeather up to `await fetch(...)`: setError(null) and the request
\* for the query of this render.
StartFetch(q) ==
    /\ requests' = requests + 1
    /\ outstanding' = outstanding \cup {[id |-> requests + 1, query |-> q]}
    /\ fetchError' = FALSE

\* The effect on mount, a tick of the interval, or a click on Retry:
\* fetchWeather is called for the present query.
Poll ==
    /\ requests < MaxRequests
    /\ StartFetch(query)
    /\ UNCHANGED <<query, succeeded, shownWeather, handedOver>>
    /\ UNCHANGED <<engineVars, thrown, lastCall, fieldVars, terrainVars, dbVars>>

\* The query changes (Enter in the input, or new lat and lon): fetchWeather
\* is made anew, the effect clears the interval and calls the new
\* fetchWeather; the request in flight is left alone.  The effect of the
\* mount has made its request before any change.
ChangeQuery ==
    /\ requests > 0
    /\ requests < MaxRequests
    /\ \E q \in Queries \ {query} :
        /\ query' = q
        /\ StartFetch(q)
    /\ UNCHANGED <<succeeded, shownWeather, handedOver>>
    /\ UNCHANGED <<engineVars, thrown, lastCall, fieldVars, terrainVars, dbVars>>

\* A request settles: with an answer, setWeather stores it and
\* onWeatherUpdate receives it; with a failure, setError stores the message.
Respond ==
    /\ \E r \in outstanding :
        /\ outstanding' = outstanding \ {r}
        /\ \/ /\ shownWeather' = [request |-> r.id, query |-> r.query]
              /\ handedOver' = [request |-> r.id, query |-> r.query]
              /\ succeeded' = succeeded \cup {r.id}
              /\ UNCHANGED fetchError
           \/ /\ fetchError' = TRUE
              /\ UNCHANGED <<shownWeather, handedOver, succeeded>>
    /\ UNCHANGED <<query, requests>>
    /\ UNCHANGED <<engineVars, thrown, lastCall, fieldVars, terrainVars, dbVars>>

-----------------------------------------------------------------------------
(* The state machine. *)

\* The scene handed to the constructor, as Field.tsx builds it: an
\* exponential fog of density 0.002, and the ambient light, the sun and the
\* fill light of setupLighting, in the order in which they are added.
FieldScene ==
    [children |-> {},
     fog |-> [id |-> 1, density |-> 2000],
     lights |-> << [type |-> "AmbientLight", y |-> 0, intensity |-> 6,
                    color |-> 16777215],                               \* 0xffffff
                   [type |-> "DirectionalLight", y |-> 30, intensity |-> 8,
                    color |-> 16774374],                               \* 0xfff4e6
                   [type |-> "DirectionalLight", y |-> 20, intensity |-> 3,
                    color |-> 13430015] >>]                            \* 0xccf0ff

\* new WeatherEffects(scene)
Init ==
    /\ weatherState = Null
    /\ clouds = Null
    /\ rainParticles = Null
    /\ windLines = Null
    /\ fog = Null
    /\ windIndicator = Null
    /\ windArrow = Null
    /\ scene = FieldScene
    /\ gpuResources = {}
    /\ nextId = 2
    /\ observed \in {"rain", "wind"}
    /\ calls = 0
    /\ lastCall = [op |-> "new"]
    /\ disposed = FALSE
    /\ thrown = FALSE
    /\ FieldMounted
    /\ terrainLatest = Null
    /\ terrainPrevious = Null
    /\ terrainRuns = 0
    /\ DbLoaded
    /\ WeatherMounted

\* The engine after a call.
Commit(e) ==
    /\ weatherState' = e.weatherState
    /\ clouds' = e.clouds
    /\ rainParticles' = e.rainParticles
    /\ windLines' = e.windLines
    /\ fog' = e.fog
    /\ windIndicator' = e.windIndicator
    /\ windArrow' = e.windArrow
    /\ scene' = e.scene
    /\ gpuResources' = e.gpuResources
    /\ nextId' = e.nextId

Triples == RandomDraws \X RandomDraws \X RandomDraws
Singles == {<<r>> : r \in RandomDraws}
Pairs == RandomDraws \X RandomDraws

\* The Math.random() draws that updateRain makes for the followed particle.
RainDraws(w) ==
    IF observed = "rain" /\ IsRain(w) /\ ParticleCount(w.humidity) > 0
    THEN Triples ELSE {<<>>}

\* The Math.random() draws that updateWind makes for the followed streak.
WindDraws(w) ==
    IF observed = "wind" /\ w.windSpeed > 30 THEN Pairs ELSE {<<>>}

\* The draws of animate for the followed particle: made when it is reset.
RainResetDraws(delta) ==
    IF /\ rainParticles # Null
       /\ weatherState # Null
       /\ rainParticles.positions # <<>>
       /\ RainFall(rainParticles.positions[2], delta) < 0
    THEN Triples ELSE {<<>>}

\* The draws of animate for the followed streak: made when it restarts.
WindResetDraws(delta) ==
    IF /\ windLines # Null
       /\ weatherState # Null
       /\ windLines.positions # <<>>
       /\ StreakMove(windLines.positions[1], weatherState.windSpeed, delta) < 0 - 60 * Unit
    THEN Singles ELSE {<<>>}

UpdateWeather ==
    /\ calls < MaxCalls
    /\ \E w \in WeatherStates :
        /\ \E r \in RainDraws(w), s \in WindDraws(w) :
               \E e \in {UpdateWeatherCall(Engine, w, r, s)} : Commit(e)
        /\ lastCall' = [op |-> "updateWeather", weather |-> w,
                        repeated |-> (w = weatherState)]
    /\ calls' = calls + 1
    /\ thrown' = FALSE
    /\ UNCHANGED <<observed, disposed, fieldVars, terrainVars, dbVars, pollVars>>

Animate ==
    /\ calls < MaxCalls
    /\ \E delta \in Deltas :
        /\ \E r \in RainResetDraws(delta), s \in WindResetDraws(delta) :
               \E e \in {AnimateCall(Engine, delta, r, s)} : Commit(e)
        /\ lastCall' = [op |-> "animate", delta |-> delta]
    /\ calls' = calls + 1
    /\ thrown' = FALSE
    /\ UNCHANGED <<observed, disposed, fieldVars, terrainVars, dbVars, pollVars>>

\* dispose() is called once, at any point of the engine's life.
Dispose ==
    /\ ~disposed
    /\ \E e \in {DisposeCall(Engine)} : Commit(e)
    /\ lastCall' = [op |-> "dispose"]
    /\ disposed' = TRUE
    /\ thrown' = FALSE
    /\ UNCHANGED <<observed, calls, fieldVars, terrainVars, dbVars, pollVars>>

\* The engine in use: weather updates and frames.
Next == UpdateWeather \/ Animate

Spec == Init /\ [][Next]_vars

\* The engine in use and its teardown.
NextTeardown == UpdateWeather \/ Animate \/ Dispose

SpecTeardown == Init /\ [][NextTeardown]_vars

-----------------------------------------------------------------------------
(* The Field component: its events.  No event of the component reaches the *)
(* engine: Field.tsx constructs no WeatherEffects.                          *)

\* A texture load succeeds: the manager counts the item and reports the
\* progress; when it was the last of the seven, initializeScene goes on
\* with createTerrain, createGrass and loadPlantModels, whose load
\* registers its items.
TextureLoaded ==
    /\ texturesLoaded + texturesFailed < TextureCount
    /\ texturesLoaded' = texturesLoaded + 1
    /\ itemsLoaded' = itemsLoaded + 1
    /\ progress' = OnProgress(itemsLoaded + 1, itemsTotal)
    /\ IF texturesLoaded + 1 = TextureCount /\ initPhase = "textures"
       THEN /\ textureMaps' = [role \in TextureRoles |-> PostProcess(role, Loaded(role))]
            /\ built' = built \cup {"terrain", "grass"}
            /\ loadingMessage' = MessagePlants
            /\ plantLoad' = "file"
            /\ itemsTotal' = itemsTotal + PlantItems
            /\ initPhase' = "plants"
       ELSE UNCHANGED <<textureMaps, built, loadingMessage, plantLoad, itemsTotal,
                         initPhase>>
    /\ lastCall' = [op |-> "textureLoaded"]
    /\ UNCHANGED <<texturesFailed, loading, mixers, disposeCalls, pendingFrames,
                   frames, resizeListener, windowSize, rendererSize,
                   canvasMounted, rendererDisposed, tornDown, coordinates,
                   weatherData, fetches>>
    /\ UNCHANGED <<engineVars, thrown, terrainVars, dbVars, pollVars, plantField>>
    /\ constructionLog' = IF texturesLoaded + 1 = TextureCount /\ initPhase = "textures"
                          THEN constructionLog \o AfterTextures
                          ELSE constructionLog

\* A texture load fails: the manager counts the item as ended and reports
\* the progress; Promise.all rejects with the first failure and the catch
\* of initializeScene sets the failure message.
TextureFailed ==
    /\ texturesLoaded + texturesFailed < TextureCount
    /\ texturesFailed' = texturesFailed + 1
    /\ itemsLoaded' = itemsLoaded + 1
    /\ progress' = OnProgress(itemsLoaded + 1, itemsTotal)
    /\ IF initPhase = "textures"
       THEN initPhase' = "failed" /\ loadingMessage' = MessageFailed
       ELSE UNCHANGED <<initPhase, loadingMessage>>
    /\ lastCall' = [op |-> "textureFailed"]
    /\ UNCHANGED <<texturesLoaded, plantLoad, itemsTotal, loading, built, mixers,
                   disposeCalls, pendingFrames, frames, resizeListener,
                   windowSize, rendererSize, canvasMounted, rendererDisposed,
                   tornDown, coordinates, weatherData, fetches>>
    /\ UNCHANGED <<engineVars, thrown, terrainVars, dbVars, pollVars, textureMaps, plantField>>
    /\ constructionLog' = IF initPhase = "textures"
                          THEN constructionLog \o OnFailure
                          ELSE constructionLog

\* The file of the plant model has arrived: the FileLoader's item ends and
\* the GLTFLoader parses the data.
PlantFileLoaded ==
    /\ plantLoad = "file"
    /\ plantLoad' = "parsing"
    /\ itemsLoaded' = itemsLoaded + 1
    /\ progress' = OnProgress(itemsLoaded + 1, itemsTotal)
    /\ lastCall' = [op |-> "plantFileLoaded"]
    /\ UNCHANGED <<initPhase, texturesLoaded, texturesFailed, itemsTotal, loading,
                   loadingMessage, built, mixers, disposeCalls, pendingFrames,
                   frames, resizeListener, windowSize, rendererSize,
                   canvasMounted, rendererDisposed, tornDown, coordinates,
                   weatherData, fetches>>
    /\ UNCHANGED <<engineVars, thrown, terrainVars, dbVars, pollVars, textureMaps, plantField>>
    /\ UNCHANGED constructionLog

\* The plant model is parsed: the GLTFLoader's item ends, loadPlantModels
\* returns the model, createPlantField adds the grid of clones with their
\* animation players and initializeScene clears the loading flag.
PlantParsed ==
    /\ plantLoad = "parsing"
    /\ plantLoad' = "loaded"
    /\ itemsLoaded' = itemsLoaded + 1
    /\ progress' = OnProgress(itemsLoaded + 1, itemsTotal)
    /\ loadingMessage' = MessageCrops
    /\ built' = built \cup {"plants"}
    /\ mixers' = mixers + Rows * Cols
    /\ plantField' = [groups |-> 1, grouped |-> Rows * Cols, loose |-> 0]
    /\ loading' = FALSE
    /\ initPhase' = "complete"
    /\ lastCall' = [op |-> "plantParsed"]
    /\ UNCHANGED <<texturesLoaded, texturesFailed, itemsTotal, disposeCalls,
                   pendingFrames, frames, resizeListener, windowSize,
                   rendererSize, canvasMounted, rendererDisposed, tornDown,
                   coordinates, weatherData, fetches>>
    /\ UNCHANGED <<engineVars, thrown, terrainVars, dbVars, pollVars, textureMaps>>
    /\ constructionLog' = constructionLog \o AfterPlants

\* The plant model fails to load or to parse: the items still open end, the
\* catch of loadPlantModels turns the failure into null, which is filtered
\* out; createPlantField returns at once for the empty list and
\* initializeScene clears the loading flag.
PlantFailed ==
    /\ plantLoad \in {"file", "parsing"}
    /\ plantLoad' = "failed"
    /\ itemsLoaded' = itemsTotal
    /\ progress' = OnProgress(itemsTotal, itemsTotal)
    /\ loading' = FALSE
    /\ initPhase' = "complete"
    /\ lastCall' = [op |-> "plantFailed"]
    /\ UNCHANGED <<texturesLoaded, texturesFailed, itemsTotal, loadingMessage,
                   built, mixers, disposeCalls, pendingFrames, frames,
                   resizeListener, windowSize, rendererSize, canvasMounted,
                   rendererDisposed, tornDown, coordinates, weatherData, fetches>>
    /\ UNCHANGED <<engineVars, thrown, terrainVars, dbVars, pollVars, textureMaps, plantField>>
    /\ constructionLog' = constructionLog \o AfterPlants

\* animate: the pending frame callback runs; it requests the next frame,
\* updates the mixers and the controls and renders.
Frame ==
    /\ pendingFrames > 0
    /\ frames < MaxFrames
    /\ pendingFrames' = FrameRequests(pendingFrames)
    /\ frames' = frames + 1
    /\ lastCall' = [op |-> "frame", steps |-> FrameSteps]
    /\ UNCHANGED <<initPhase, texturesLoaded, texturesFailed, plantLoad,
                   itemsLoaded, itemsTotal, progress, loading, loadingMessage,
                   built, mixers, disposeCalls, resizeListener, windowSize,
                   rendererSize, canvasMounted, rendererDisposed, tornDown,
                   coordinates, weatherData, fetches>>
    /\ UNCHANGED <<engineVars, thrown, terrainVars, dbVars, pollVars, textureMaps, plantField>>
    /\ UNCHANGED constructionLog

\* The window is resized; handleResize runs when it is registered.
Resize ==
    /\ \E size \in WindowSizes \ {windowSize} :
        /\ windowSize' = size
        /\ rendererSize' = IF resizeListener THEN size ELSE rendererSize
    /\ lastCall' = [op |-> "resize"]
    /\ UNCHANGED <<initPhase, texturesLoaded, texturesFailed, plantLoad,
                   itemsLoaded, itemsTotal, progress, loading, loadingMessage,
                   built, mixers, disposeCalls, pendingFrames, frames,
                   resizeListener, canvasMounted, rendererDisposed, tornDown,
                   coordinates, weatherData, fetches>>
    /\ UNCHANGED <<engineVars, thrown, terrainVars, dbVars, pollVars, textureMaps, plantField>>
    /\ UNCHANGED constructionLog

\* The cleanup of the mount effect.  mountRef.current is set or already
\* null when it runs.  An exception of cleanupScene ends the cleanup before
\* the traversal.
Cleanup ==
    /\ ~tornDown
    /\ \E mountAttached \in BOOLEAN :
        LET c == CleanupScene(mountAttached, canvasMounted, rendererDisposed)
        IN  /\ canvasMounted' = c.canvasMounted
            /\ rendererDisposed' = c.rendererDisposed
            /\ thrown' = c.thrown
            /\ disposeCalls' = IF c.thrown THEN disposeCalls
                               ELSE TraverseDispose(built, disposeCalls)
    /\ resizeListener' = FALSE
    /\ tornDown' = TRUE
    /\ lastCall' = [op |-> "cleanup"]
    /\ UNCHANGED <<initPhase, texturesLoaded, texturesFailed, plantLoad,
                   itemsLoaded, itemsTotal, progress, loading, loadingMessage,
                   built, mixers, pendingFrames, frames, windowSize,
                   rendererSize, coordinates, weatherData, fetches>>
    /\ UNCHANGED <<engineVars, terrainVars, dbVars, pollVars, textureMaps, plantField>>
    /\ UNCHANGED constructionLog

\* The geolocation answers, or is missing: setCoordinates, which lets the
\* Weather element render.
Locate ==
    /\ ~coordinates
    /\ coordinates' = TRUE
    /\ lastCall' = [op |-> "locate"]
    /\ UNCHANGED <<initPhase, texturesLoaded, texturesFailed, plantLoad,
                   itemsLoaded, itemsTotal, progress, loading, loadingMessage,
                   built, mixers, disposeCalls, pendingFrames, frames,
                   resizeListener, windowSize, rendererSize, canvasMounted,
                   rendererDisposed, tornDown, weatherData, fetches>>
    /\ UNCHANGED <<engineVars, thrown, terrainVars, dbVars, pollVars, textureMaps, plantField>>
    /\ UNCHANGED constructionLog

\* fetchWeather of the Weather element, on its mount and on each poll,
\* while Field is mounted: a successful answer is stored by setWeather and
\* handed to onWeatherUpdate when that prop is given; a failure leaves the
\* stored value.
Fetch ==
    /\ coordinates
    /\ ~tornDown
    /\ fetches < MaxFetches
    /\ \/ \E data \in FetchedWeather :
            /\ weatherData' = data
            /\ lastCall' = [op |-> "fetch", ok |-> TRUE,
                            delivered |-> (OnWeatherUpdate # Null)]
       \/ /\ weatherData' = weatherData
          /\ lastCall' = [op |-> "fetch", ok |-> FALSE, delivered |-> FALSE]
    /\ fetches' = fetches + 1
    /\ UNCHANGED <<initPhase, texturesLoaded, texturesFailed, plantLoad,
                   itemsLoaded, itemsTotal, progress, loading, loadingMessage,
                   built, mixers, disposeCalls, pendingFrames, frames,
                   resizeListener, windowSize, rendererSize, canvasMounted,
                   rendererDisposed, tornDown, coordinates>>
    /\ UNCHANGED <<engineVars, thrown, terrainVars, dbVars, pollVars, textureMaps, plantField>>
    /\ UNCHANGED constructionLog

\* The Field component from its mount to after its unmount.
NextField ==
    \/ TextureLoaded \/ TextureFailed
    \/ PlantFileLoaded \/ PlantParsed \/ PlantFailed
    \/ Frame \/ Resize \/ Cleanup
    \/ Locate \/ Fetch

SpecField == Init /\ [][NextField]_vars

-----------------------------------------------------------------------------
(* The terrain generators run on a fresh plane. *)

\* First vertices of the parts followed: the start, an inner part and the
\* end of the row y = 0 (the end runs over into the next row), the rows
\* y = 1, y = 2 and y = 8 inside a band, the row y = 25 outside.
WindowStarts ==
    {50 * 101, 50 * 101 + 57, 50 * 101 + 99, 49 * 101, 48 * 101,
     47 * 101 + 50, 42 * 101 + 50, 25 * 101 + 50}

\* The vertices of the part that starts at vertex `start`.
Window(start) == [i \in 1 .. TerrainWindow |-> start + i - 1]

TerrainDraws == [1 .. TerrainWindow -> RandomDraws]

\* What a run leaves in the terrain variables.
TerrainRun(generator, start, heights) ==
    /\ terrainLatest' = [generator |-> generator, start |-> start, heights |-> heights]
    /\ terrainPrevious' = terrainLatest
    /\ terrainRuns' = terrainRuns + 1
    /\ lastCall' = [op |-> generator]

\* createTerrain of Field.tsx on a new PlaneGeometry.
CreateTerrain ==
    /\ terrainRuns < MaxTerrainRuns
    /\ \E start \in WindowStarts :
        TerrainRun("createTerrain", start,
                   [i \in 1 .. TerrainWindow |-> CreateTerrainHeight(Window(start)[i])])
    /\ UNCHANGED <<engineVars, thrown, fieldVars, dbVars, pollVars>>

\* The deformation loop of part_001 on a new PlaneGeometry.
DeformTerrain ==
    /\ terrainRuns < MaxTerrainRuns
    /\ \E start \in WindowStarts, r \in TerrainDraws :
        TerrainRun("part_001", start,
                   [i \in 1 .. TerrainWindow |-> DeformTerrainHeight(Window(start)[i], r[i])])
    /\ UNCHANGED <<engineVars, thrown, fieldVars, dbVars, pollVars>>

NextTerrain == CreateTerrain \/ DeformTerrain

SpecTerrain == Init /\ [][NextTerrain]_vars

-----------------------------------------------------------------------------
(* The Field component of src/unnamed/part_001: the callback of            *)
(* loadTextures, the plant load and its two outcomes.  Its animate and its *)
(* handleResize are those of Frame and Resize.                             *)

\* loadTextures().then: the ground is deformed and added, the grass is
\* added, and gltfLoader.load is called for the one plant type.
Part001TexturesLoaded ==
    /\ plantLoad = "idle"
    /\ terrainRuns < MaxTerrainRuns
    /\ \E start \in WindowStarts, r \in TerrainDraws :
        TerrainRun("part_001", start,
                   [i \in 1 .. TerrainWindow |-> DeformTerrainHeight(Window(start)[i], r[i])])
    /\ plantLoad' = "file"
    /\ UNCHANGED <<initPhase, texturesLoaded, texturesFailed, itemsLoaded,
                   itemsTotal, progress, loading, loadingMessage, built, mixers,
                   disposeCalls, pendingFrames, frames, resizeListener,
                   windowSize, rendererSize, canvasMounted, rendererDisposed,
                   tornDown, coordinates, weatherData, fetches, textureMaps,
                   plantField>>
    /\ UNCHANGED <<engineVars, thrown, dbVars, pollVars>>
    /\ UNCHANGED constructionLog

\* The onLoad callback of gltfLoader.load: plants.push, then
\* tryCreateField, which counts the model, sets the progress, clears the
\* loading flag and calls createField: fifteen clones, each with a mixer,
\* each added to the scene.
Part001PlantLoaded ==
    /\ plantLoad = "file"
    /\ plantLoad' = "loaded"
    /\ progress' = Round(1 * 100, 1)
    /\ loading' = FALSE
    /\ mixers' = mixers + Rows * Cols
    /\ plantField' = [plantField EXCEPT !.loose = @ + Rows * Cols]
    /\ thrown' = FALSE
    /\ lastCall' = [op |-> "part001PlantLoaded"]
    /\ UNCHANGED <<initPhase, texturesLoaded, texturesFailed, itemsLoaded,
                   itemsTotal, loadingMessage, built, disposeCalls,
                   pendingFrames, frames, resizeListener, windowSize,
                   rendererSize, canvasMounted, rendererDisposed, tornDown,
                   coordinates, weatherData, fetches, textureMaps>>
    /\ UNCHANGED <<engineVars, terrainVars, dbVars, pollVars>>
    /\ UNCHANGED constructionLog

\* The onError callback of gltfLoader.load: tryCreateField counts the
\* model, sets the progress, clears the loading flag and calls createField
\* with no plant in the list; plants[0] is undefined and the read of its
\* gltf throws a TypeError before any clone is made.
Part001PlantFailed ==
    /\ plantLoad = "file"
    /\ plantLoad' = "failed"
    /\ progress' = Round(1 * 100, 1)
    /\ loading' = FALSE
    /\ thrown' = TRUE
    /\ lastCall' = [op |-> "part001PlantFailed"]
    /\ UNCHANGED <<initPhase, texturesLoaded, texturesFailed, itemsLoaded,
                   itemsTotal, loadingMessage, built, mixers, disposeCalls,
                   pendingFrames, frames, resizeListener, windowSize,
                   rendererSize, canvasMounted, rendererDisposed, tornDown,
                   coordinates, weatherData, fetches, textureMaps, plantField>>
    /\ UNCHANGED <<engineVars, terrainVars, dbVars, pollVars>>
    /\ UNCHANGED constructionLog

NextPart001 ==
    \/ Part001TexturesLoaded
    \/ Part001PlantLoaded
    \/ Part001PlantFailed
    \/ Frame
    \/ Resize

SpecPart001 == Init /\ [][NextPart001]_vars

\* lib/mongodb.ts on its own.
NextDb == Arrive \/ Settle \/ RunJob

SpecDb == Init /\ [][NextDb]_vars

\* The Weather component on its own.
NextWeather == Poll \/ ChangeQuery \/ Respond

SpecWeather == Init /\ [][NextWeather]_vars

-----------------------------------------------------------------------------
(* The engine given malformed values. *)

\* updateWeather with a malformed value.  The code checks nothing: a value
\* with a label is applied like any other, one without ends in the
\* exception of UpdateWeatherThrown.
UpdateWeatherMalformed ==
    /\ calls < MaxCalls
    /\ \E w \in MalformedStates :
        /\ IF w.conditions = Undefined
           THEN /\ \E e \in {UpdateWeatherThrown(Engine, w)} : Commit(e)
                /\ thrown' = TRUE
           ELSE /\ \E r \in RainDraws(w), s \in WindDraws(w) :
                       \E e \in {UpdateWeatherCall(Engine, w, r, s)} : Commit(e)
                /\ thrown' = FALSE
        /\ lastCall' = [op |-> "updateWeatherMalformed"]
    /\ calls' = calls + 1
    /\ UNCHANGED <<observed, disposed, fieldVars, terrainVars, dbVars, pollVars>>

\* The engine in use, with well-formed and malformed values.
NextMalformed == UpdateWeather \/ Animate \/ UpdateWeatherMalformed

SpecMalformed == Init /\ [][NextMalformed]_vars

-----------------------------------------------------------------------------
(* Vocabulary of the properties. *)

Kinds == {"clouds", "rain", "windLines", "windIndicator"}

\* The scene children of one effect kind.
Attached(kind) == {c \in scene.children : c.kind = kind}

\* The engine's handle of one effect kind.
Handle(kind) ==
    CASE kind = "clouds" -> clouds
      [] kind = "rain" -> rainParticles
      [] kind = "windLines" -> windLines
      [] kind = "windIndicator" -> windIndicator

\* The instance of a kind that the engine holds is in the scene.
Live(kind) ==
    Handle(kind) # Null /\ [id |-> Handle(kind).id, kind |-> kind] \in scene.children

\* Instances of a kind constructed since the engine was made.
Constructed(kind) == {r \in gpuResources : r.kind = kind}

\* The position slots of the followed rain particle, when there is one.
RainFollowed == rainParticles # Null /\ rainParticles.positions # <<>>

\* The step is a call of updateWeather, of animate.
UpdateStep == calls' # calls /\ lastCall'.op = "updateWeather"
AnimateStep == calls' # calls /\ lastCall'.op = "animate"

-----------------------------------------------------------------------------
(* C1 *)

\* C1: after every updateWeather call the scene holds at most one instance
\* of each effect kind, the one the engine's handle names, and the scene's
\* fog is the engine's latest fog: no earlier instance stays attached.
C1_OneLiveInstancePerKind ==
    /\ \A k \in Kinds : Cardinality(Attached(k)) <= 1
    /\ \A c \in scene.children : c.id = Handle(c.kind).id
    /\ fog # Null => scene.fog = fog

\* Clouds and rain have each been built twice and one of each is attached.
C1_Witness ==
    /\ Cardinality(Constructed("clouds")) = 2
    /\ Cardinality(Constructed("rain")) = 2
    /\ Cardinality(Attached("clouds")) = 1
    /\ Cardinality(Attached("rain")) = 1

-----------------------------------------------------------------------------
(* C2 *)

\* The labels of the model that contain "rain" in some casing.
RainLabels == {LabelRain, LabelRainLower, LabelRainUpper}

\* C2: after every updateWeather call a rain instance is attached exactly
\* when the latest label is "Rain", "rain" or "RAIN", and none is attached
\* for "Clouds" or "Clear", whatever the states before.
C2_RainIffRainLabel ==
    weatherState # Null => (Live("rain") <=> weatherState.conditions \in RainLabels)

\* "RAIN" brought rain after an update that had none.
C2_Witness ==
    /\ weatherState # Null
    /\ weatherState.conditions = LabelRainUpper
    /\ Live("rain")
    /\ Cardinality(Constructed("clouds")) = 2
    /\ Cardinality(Constructed("rain")) = 1

-----------------------------------------------------------------------------
(* C3 *)

\* C3: after every updateWeather call the wind indicator is attached
\* exactly when the latest windSpeed is above 0.
C3_IndicatorIffWind ==
    weatherState # Null => (Live("windIndicator") <=> weatherState.windSpeed > 0)

\* An indicator was built by one update and removed by a later calm one.
C3_Witness ==
    /\ weatherState # Null
    /\ weatherState.windSpeed = 0
    /\ Constructed("windIndicator") # {}
    /\ ~Live("windIndicator")
    /\ windIndicator = Null

-----------------------------------------------------------------------------
(* C4 *)

\* C4: whenever the wind indicator is attached, the arrow's rotation is the
\* latest windDirection - 180 modulo 360 and its scale 1 + windSpeed / 10.
C4_ArrowFollowsWind ==
    Live("windIndicator") =>
        /\ windArrow # Null
        /\ (windArrow.rotationZ - (weatherState.windDirection - 180)) % 360 = 0
        /\ windArrow.scale = 100 + weatherState.windSpeed

\* The indicator was built by an earlier update than the one that built the
\* clouds now in the scene, and the arrow shows a wind from 270 at 3 m/s.
C4_Witness ==
    /\ Live("windIndicator")
    /\ Live("clouds")
    /\ windIndicator.id < clouds.id
    /\ weatherState.windDirection = 270
    /\ windArrow.rotationZ = 90
    /\ windArrow.scale = 130

-----------------------------------------------------------------------------
(* C5 *)

\* C5: whenever a rain instance is attached, its buffer holds
\* floor(5000 * humidity / 100) particles for the latest humidity.
C5_RainCountIsFloor ==
    Live("rain") => rainParticles.count = (5000 * weatherState.humidity) \div 100

-----------------------------------------------------------------------------
(* C6 *)

\* What an animate step does to the followed rain particle, the reset band
\* ending at `top` and the planar range at `side`, each either included or
\* not.
RainStep(topIncluded, sideIncluded) ==
    (AnimateStep /\ RainFollowed /\ weatherState # Null) =>
        LET p == rainParticles.positions
            q == rainParticles'.positions
            fallen == p[2] - 10 * lastCall'.delta * Unit
            top == IF topIncluded THEN 50 * Unit ELSE 50 * Unit - 1
            side == IF sideIncluded THEN 50 * Unit ELSE 50 * Unit - 1
        IN  /\ fallen >= 0 => q = <<p[1], fallen, p[3]>>
            /\ fallen < 0 =>
                /\ 20 * Unit <= q[2] /\ q[2] <= top
                /\ 0 - 50 * Unit <= q[1] /\ q[1] <= side
                /\ 0 - 50 * Unit <= q[3] /\ q[3] <= side
            /\ rainParticles'.id = rainParticles.id
            /\ rainParticles'.count = rainParticles.count
            /\ scene'.children = scene.children

-----------------------------------------------------------------------------
(* C7 *)

\* C7, as amended: in every reachable state every rain particle height lies
\* in [0, 50], both ends included, so none is ever below the ground.
C7_RainHeightInBand ==
    RainFollowed =>
        /\ 0 <= rainParticles.positions[2]
        /\ rainParticles.positions[2] <= 50 * Unit

\* C7, as stated: no height is below the ground by more than the fall of
\* the latest frame, and after an animate step every height is in [0, 50).
C7_RainHeightBelowFifty ==
    RainFollowed =>
        /\ rainParticles.positions[2] >=
               0 - 10 * (IF lastCall.op = "animate" THEN lastCall.delta ELSE 0) * Unit
        /\ lastCall.op = "animate" =>
               /\ 0 <= rainParticles.positions[2]
               /\ rainParticles.positions[2] < 50 * Unit

\* A frame of one second has let the followed particle fall from 50 to 40.
C7_Witness ==
    /\ lastCall.op = "animate"
    /\ lastCall.delta = 1
    /\ RainFollowed
    /\ rainParticles.positions[2] = 40 * Unit

-----------------------------------------------------------------------------
(* C8 *)

\* The scene of a calm clear state: no rain, no streaks, no indicator, the
\* fog computed from the humidity, the bright lighting preset.
ClearCalmScene ==
    /\ Attached("rain") = {} /\ rainParticles = Null
    /\ Attached("windLines") = {} /\ windLines = Null
    /\ Attached("windIndicator") = {} /\ windIndicator = Null
    /\ scene.fog.density = 1000 + 20 * weatherState.humidity
    /\ scene.lights[1].intensity = 6
    /\ scene.lights[2].intensity = 8

\* C8: an update from a rain-like state with windSpeed above 3 m/s to the
\* state "Clear" with windSpeed 0 leaves no rain, no streaks and no
\* indicator, the fog of the new humidity and the bright lighting.
C8_ClearAfterRain ==
    [][(/\ weatherState # Null
        /\ weatherState.conditions \in RainLabels
        /\ weatherState.windSpeed > 30
        /\ UpdateStep
        /\ weatherState'.conditions = LabelClear
        /\ weatherState'.windSpeed = 0) => ClearCalmScene']_vars

\* The second of two updates was calm and clear, the first had built rain,
\* streaks and an indicator.
C8_Witness ==
    /\ weatherState # Null
    /\ weatherState.conditions = LabelClear
    /\ weatherState.windSpeed = 0
    /\ weatherState.humidity = 0
    /\ Constructed("rain") # {}
    /\ Constructed("windLines") # {}
    /\ Constructed("windIndicator") # {}
    /\ ClearCalmScene

-----------------------------------------------------------------------------
(* C9 *)

\* What the claim compares across two updates.
VisibleResult ==
    [perKind |-> [k \in Kinds |-> Cardinality(Attached(k))],
     cloudCount |-> clouds.count,
     rainCount |-> IF rainParticles = Null THEN 0 - 1 ELSE rainParticles.count,
     streakCount |-> IF windLines = Null THEN 0 - 1 ELSE windLines.count,
     fogDensity |-> scene.fog.density,
     lighting |-> [i \in DOMAIN scene.lights |->
                      <<scene.lights[i].intensity, scene.lights[i].color>>],
     arrow |-> IF windArrow = Null THEN <<>>
               ELSE <<windArrow.rotationZ, windArrow.scale>>]

\* C9: an updateWeather call that passes the state applied by the call
\* before it leaves the live kinds, the counts, the fog density, the
\* lighting and the arrow as they were, with one instance per kind.
C9_UpdateIdempotent ==
    [][(/\ lastCall.op = "updateWeather"
        /\ UpdateStep
        /\ lastCall'.repeated) =>
            /\ VisibleResult' = VisibleResult
            /\ \A k \in Kinds : Cardinality(Attached(k))' <= 1]_vars

\* The same rainy, windy state was applied twice in a row.
C9_Witness ==
    /\ calls = 2
    /\ lastCall.op = "updateWeather"
    /\ lastCall.repeated
    /\ Cardinality(Constructed("clouds")) = 2
    /\ Live("rain")
    /\ Live("windLines")
    /\ Live("windIndicator")

-----------------------------------------------------------------------------
(* C10 *)

\* C10: after any sequence of updates the effect instances whose GPU
\* resources are allocated and not released are exactly the live ones.
C10_ResourcesOfLiveInstancesOnly ==
    {r.id : r \in gpuResources} = {c.id : c \in scene.children}

-----------------------------------------------------------------------------
(* C11 *)

\* The step is a call of dispose, the cleanup of the Field effect.
DisposeStep == ~disposed /\ disposed'
CleanupStep == ~tornDown /\ tornDown'

\* C11: an animate call made after dispose raises no exception, creates no
\* resource and writes no cloud, particle or streak position.
C11_AnimateAfterDisposeIsNoOp ==
    [][(disposed /\ AnimateStep) =>
            /\ ~thrown'
            /\ gpuResources' = gpuResources
            /\ nextId' = nextId
            /\ clouds' = clouds
            /\ rainParticles' = rainParticles
            /\ windLines' = windLines]_vars

-----------------------------------------------------------------------------
(* C12 *)

\* C12: once the cleanup of the Field effect has run, no further frame of
\* the animation loop executes.
C12_NoFrameAfterTeardown == [][tornDown => frames' = frames]_vars

-----------------------------------------------------------------------------
(* C13 *)

\* C13: a load that completes after the cleanup has run adds nothing to the
\* scene, creates no animation player and sets no loading state.
C13_LateLoadsDiscarded ==
    [][tornDown =>
            /\ built' = built
            /\ mixers' = mixers
            /\ loading' = loading
            /\ loadingMessage' = loadingMessage]_vars

-----------------------------------------------------------------------------
(* C14 *)

\* C14: the cleanup releases every geometry and every material reachable
\* from the scene exactly once, those shared by many meshes included.
C14_ReleasedExactlyOnce ==
    [][CleanupStep =>
            \A r \in ReachableResources(built) : disposeCalls'[r] = 1]_vars

-----------------------------------------------------------------------------
(* C15 *)

\* C15: after the cleanup the resize listener is detached, the canvas is
\* out of its mount element and the renderer is disposed, whether or not
\* the mount reference was set when the cleanup ran.
C15_ListenerAndSurfaceReleased ==
    tornDown => (~resizeListener /\ ~canvasMounted /\ rendererDisposed)

-----------------------------------------------------------------------------
(* C16 *)

\* dispose() has left the scene without any effect instance; the fog of
\* the scene is taken away when the engine had made one and left alone
\* otherwise, and a null handle stays null.
DisposeDone ==
    /\ ~thrown'
    /\ \A k \in Kinds : Attached(k)' = {}
    /\ scene'.fog = IF fog # Null THEN Null ELSE scene.fog
    /\ scene'.lights = scene.lights
    /\ \A k \in Kinds : Handle(k) = Null => Handle(k)' = Null
    /\ gpuResources' = gpuResources

\* The cleanup of the Field effect has completed: no exception, the
\* listener is detached and each resource of the parts built so far has
\* been disposed of.
CleanupDone ==
    /\ ~thrown'
    /\ ~resizeListener'
    /\ \A r \in Resources : disposeCalls'[r] >= 1 <=> r \in ReachableResources(built)

-----------------------------------------------------------------------------
(* C17 *)

\* A resource of the manifest has failed to load.
AnyLoadFailed == texturesFailed > 0 \/ plantLoad = "failed"

\* C17: once any texture or the plant model has failed to load, the
\* failure message is shown, the loading flag stays set and initialization
\* never counts as complete.
C17_AnyFailureIsTerminal ==
    AnyLoadFailed =>
        /\ loading
        /\ loadingMessage = MessageFailed
        /\ initPhase = "failed"

-----------------------------------------------------------------------------
(* C18 *)

\* C18: the progress reported during loading never decreases and stays
\* within 0 and 100 percent.
C18_ProgressMonotone ==
    [][progress' >= progress /\ progress' \in 0 .. 100]_vars

-----------------------------------------------------------------------------
(* C19 *)

\* The step is an updateWeather call with a malformed value.
MalformedStep == calls' # calls /\ lastCall'.op = "updateWeatherMalformed"

\* C19: an updateWeather call with a malformed value raises no exception
\* and leaves the stored state and every effect as they were.
C19_MalformedIsNoOp ==
    [][MalformedStep =>
            /\ ~thrown'
            /\ UNCHANGED <<weatherState, clouds, rainParticles, windLines, fog,
                           windIndicator, windArrow, scene>>]_vars

-----------------------------------------------------------------------------
(* C20 *)

\* C20: every weather value that the Weather element has obtained is
\* applied to the engine by updateWeather; at the latest when Field is torn
\* down, the value last obtained is the engine's state.
C20_FetchedWeatherApplied ==
    (tornDown /\ weatherData # Null) =>
        /\ weatherState # Null
        /\ weatherState.conditions = weatherData.conditions
        /\ weatherState.humidity = weatherData.humidity
        /\ weatherState.windSpeed = weatherData.windSpeed
        /\ weatherState.windDirection = weatherData.windDeg

-----------------------------------------------------------------------------
(* C21 *)

\* Two runs in a row were made by the same generator on the same part of
\* identical input meshes.
SameTerrainInput ==
    /\ terrainPrevious # Null
    /\ terrainLatest.generator = terrainPrevious.generator
    /\ terrainLatest.start = terrainPrevious.start

\* C21: two runs of a terrain generator on identical input grids give
\* identical heights for every vertex.
C21_TerrainDeterministic ==
    SameTerrainInput => terrainLatest.heights = terrainPrevious.heights


\* The textures that hold colors: the two albedo maps.
ColorRoles == {"soilColor", "grassColor"}
NormalRoles == {"soilNormal", "grassNormal"}

\* C22: once loadTextures has returned, every texture wraps by repetition
\* with repeat factor (4, 4), a texture is tagged sRGB exactly when it is a
\* color texture, and neither normal map is tagged sRGB.
C22_TexturePostProcessing ==
    textureMaps # Null =>
        /\ \A role \in TextureRoles :
            /\ textureMaps[role].wrapS = "RepeatWrapping"
            /\ textureMaps[role].wrapT = "RepeatWrapping"
            /\ textureMaps[role].repeat = <<4, 4>>
            /\ textureMaps[role].colorSpace = "SRGBColorSpace" <=> role \in ColorRoles
        /\ \A role \in NormalRoles : textureMaps[role].colorSpace # "SRGBColorSpace"

\* The steps of a frame that C27 names, as the frame ran them.
NamedSteps(steps) ==
    SelectSeq(steps, LAMBDA step : step \in {"mixers", "effects", "controls", "render"})

\* C27: every frame of the Field loop updates the mixers, then runs the
\* animate step of the weather effects, then updates the controls, then
\* renders.
C27_FrameOrder ==
    lastCall.op = "frame" =>
        NamedSteps(lastCall.steps) = <<"mixers", "effects", "controls", "render">>

\* C28: while the Field is mounted at most one frame callback is pending,
\* and a frame that has run has left exactly one successor pending.
C28_OnePendingFrame ==
    /\ pendingFrames <= 1
    /\ lastCall.op = "frame" => pendingFrames = 1

\* C28 has been exercised: the loop has run its frames and one callback is
\* pending.
C28_Witness ==
    /\ frames = MaxFrames
    /\ lastCall.op = "frame"
    /\ pendingFrames = 1


-----------------------------------------------------------------------------
(* C23 *)

\* C23: every updateWeather call leaves the scene with the engine's own
\* fog, of density 0.001 + humidity / 100 * 0.002 for the humidity passed,
\* and that fog is a new one: neither the fog the scene had before the call
\* nor the fog the engine held.
C23_FogReplaced ==
    [][UpdateStep =>
          /\ scene'.fog = fog'
          /\ fog'.density = 1000 + 20 * weatherState'.humidity
          /\ scene'.fog.id # scene.fog.id
          /\ fog # Null => fog'.id # fog.id]_vars

\* A second update has replaced the fog of the first by one for humidity
\* 100.
C23_Witness ==
    /\ calls = 2
    /\ lastCall.op = "updateWeather"
    /\ ~lastCall.repeated
    /\ weatherState.humidity = 100
    /\ scene.fog = fog
    /\ fog.id > 2
    /\ fog.density = 3000

-----------------------------------------------------------------------------
(* C24 *)

\* The labels of the model that contain "rain" or "cloud" in some casing.
DimLabels == RainLabels \cup {LabelClouds}

DimPreset ==
    /\ scene.lights[1].intensity = 4
    /\ scene.lights[2].intensity = 5
    /\ scene.lights[2].color = 13421823

BrightPreset ==
    /\ scene.lights[1].intensity = 6
    /\ scene.lights[2].intensity = 8
    /\ scene.lights[2].color = 16774374

\* C24: once a weather state has been applied, the ambient light and the
\* sun have the dim cool preset when the latest label contains "rain" or
\* "cloud" in any casing, and the bright warm preset otherwise.
C24_LightingPreset ==
    weatherState # Null =>
        IF weatherState.conditions \in DimLabels THEN DimPreset ELSE BrightPreset

\* The label "Clouds" has dimmed the lights in the second of two updates.
C24_Witness ==
    /\ calls = 2
    /\ lastCall.op = "updateWeather"
    /\ weatherState.conditions = LabelClouds
    /\ DimPreset

-----------------------------------------------------------------------------
(* C25 *)

\* Ten times the cloudCount of the code for the three categories, for a
\* windSpeed in tenths.
TenRainClouds(windSpeed) == 150 + 2 * windSpeed
TenCloudClouds(windSpeed) == 100 + windSpeed
TenClearClouds(windSpeed) == 50

\* Ten times the cloudCount of the latest state's category.
TenClouds ==
    IF weatherState.conditions \in RainLabels THEN TenRainClouds(weatherState.windSpeed)
    ELSE IF weatherState.conditions = LabelClouds
    THEN TenCloudClouds(weatherState.windSpeed)
    ELSE TenClearClouds(weatherState.windSpeed)

\* C25, as amended: the cloud group holds the least whole number of clouds
\* that is not below 15 + 2 windSpeed (rain-like), 10 + windSpeed
\* (cloud-like) or 5 (clear), and for the latest windSpeed the three
\* numbers are strictly ordered rain-like > cloud-like > clear.
C25_CloudCountRoundedUp ==
    weatherState # Null =>
        /\ clouds.count = CeilDiv(TenClouds, 10)
        /\ CeilDiv(TenRainClouds(weatherState.windSpeed), 10)
               > CeilDiv(TenCloudClouds(weatherState.windSpeed), 10)
        /\ CeilDiv(TenCloudClouds(weatherState.windSpeed), 10)
               > CeilDiv(TenClearClouds(weatherState.windSpeed), 10)

\* C25, as stated: the number of clouds equals the base plus the term
\* proportional to windSpeed, with the same ordering.
C25_CloudCountExact ==
    weatherState # Null =>
        /\ 10 * clouds.count = TenClouds
        /\ TenRainClouds(weatherState.windSpeed) > TenCloudClouds(weatherState.windSpeed)
        /\ TenCloudClouds(weatherState.windSpeed) > TenClearClouds(weatherState.windSpeed)

\* "Clouds" at 3.5 m/s has built 14 clouds.
C25_Witness ==
    /\ lastCall.op = "updateWeather"
    /\ weatherState.conditions = LabelClouds
    /\ weatherState.windSpeed = 35
    /\ clouds.count = 14

-----------------------------------------------------------------------------
(* C26 *)

\* C26: once a weather state has been applied, wind streaks are attached
\* to the scene exactly when the latest windSpeed is above 3 m/s, and the
\* streaks that are attached are 50 segments.
C26_StreaksAboveThreshold ==
    weatherState # Null =>
        /\ Attached("windLines") # {} <=> weatherState.windSpeed > 30
        /\ windLines # Null <=> weatherState.windSpeed > 30
        /\ windLines # Null => windLines.count = 50

\* An update with exactly 3 m/s has taken away the streaks of the update
\* before it.
C26_Witness ==
    /\ lastCall.op = "updateWeather"
    /\ weatherState.windSpeed = 30
    /\ Constructed("windLines") # {}
    /\ Attached("windLines") = {}
    /\ windLines = Null


-----------------------------------------------------------------------------
(* C29 *)

\* C29: an animate(delta) step with a cloud group and a weather state adds
\* windSpeed * delta * 0.05 to the group's x offset and sets it to -60 when
\* the sum is above 60; the offset is at most 60 afterwards, and it stays
\* where it was when windSpeed is 0.
C29_CloudDrift ==
    [][(AnimateStep /\ clouds # Null /\ weatherState # Null) =>
          LET drifted == clouds.x + weatherState.windSpeed * lastCall'.delta * (Unit \div 200)
          IN  /\ drifted <= 60 * Unit => clouds'.x = drifted
              /\ drifted > 60 * Unit => clouds'.x = 0 - 60 * Unit
              /\ clouds'.x <= 60 * Unit
              /\ weatherState.windSpeed = 0 => clouds'.x = clouds.x
              /\ clouds'.id = clouds.id]_vars

\* A long frame at 3.5 m/s has carried the clouds beyond 60 and put them
\* back at -60.
C29_Witness ==
    /\ lastCall.op = "animate"
    /\ clouds # Null
    /\ weatherState # Null
    /\ weatherState.windSpeed = 35
    /\ clouds.x = 0 - 60 * Unit

-----------------------------------------------------------------------------
(* C30 *)

\* The x slots of the followed streak, when there is one.
StreakFollowed == windLines # Null /\ windLines.positions # <<>>

\* What an animate step does to the followed streak, the longest restart
\* being 1.5 windSpeed, either included or not.
StreakStep(longestIncluded) ==
    (AnimateStep /\ StreakFollowed /\ weatherState # Null) =>
        LET s == windLines.positions
            t == windLines'.positions
            move == weatherState.windSpeed * lastCall'.delta * (Unit \div 50)
            shortest == (weatherState.windSpeed * 5 * Unit) \div 100
            longest == (weatherState.windSpeed * 15 * Unit) \div 100
                           - (IF longestIncluded THEN 0 ELSE 1)
        IN  /\ s[1] - move >= 0 - 60 * Unit => t = <<s[1] - move, s[2] - move>>
            /\ s[1] - move < 0 - 60 * Unit =>
                /\ t[1] = 60 * Unit
                /\ shortest <= t[1] - t[2]
                /\ t[1] - t[2] <= longest
            /\ t[1] >= 0 - 60 * Unit
            /\ windLines'.id = windLines.id
            /\ windLines'.count = windLines.count
            /\ scene'.children = scene.children

-----------------------------------------------------------------------------
(* C31 *)

\* An effect handle without the positions that animate moves.
Instance(handle) ==
    IF handle = Null THEN Null
    ELSE [id |-> handle.id, count |-> handle.count,
          slots |-> IF "positions" \in DOMAIN handle THEN Len(handle.positions) ELSE 0]

\* C31: an animate step builds, removes and replaces no effect instance,
\* keeps the length of the rain and streak buffers, and leaves the weather
\* state, the fog, the lights and the indicator as they were; on an engine
\* that has had no updateWeather call it changes nothing.
C31_AnimateMovesOnly ==
    [][AnimateStep =>
          /\ scene'.children = scene.children
          /\ gpuResources' = gpuResources
          /\ nextId' = nextId
          /\ Instance(clouds') = Instance(clouds)
          /\ Instance(rainParticles') = Instance(rainParticles)
          /\ Instance(windLines') = Instance(windLines)
          /\ weatherState' = weatherState
          /\ fog' = fog
          /\ scene'.fog = scene.fog
          /\ scene'.lights = scene.lights
          /\ windIndicator' = windIndicator
          /\ windArrow' = windArrow
          /\ weatherState = Null =>
                 <<clouds, rainParticles, windLines, scene>>'
                     = <<clouds, rainParticles, windLines, scene>>]_vars

\* A frame of one second has moved the clouds and let the followed rain
\* particle fall, the rain instance being the one the update built.
C31_Witness ==
    /\ lastCall.op = "animate"
    /\ lastCall.delta = 1
    /\ Live("rain")
    /\ RainFollowed
    /\ clouds.x > 0
    /\ Cardinality(Constructed("rain")) = 1


-----------------------------------------------------------------------------
(* C32 *)

\* The effect configuration that one weather state asks for, in the terms
\* of VisibleResult: the live kinds, the counts, the fog density, the
\* lights and the arrow.
ConfigurationOf(w) ==
    LET rainy == w.conditions \in RainLabels
        dim == w.conditions \in DimLabels
        windy == w.windSpeed > 30
    IN  [perKind |-> [k \in Kinds |->
                         CASE k = "clouds" -> 1
                           [] k = "rain" -> IF rainy THEN 1 ELSE 0
                           [] k = "windLines" -> IF windy THEN 1 ELSE 0
                           [] k = "windIndicator" -> IF w.windSpeed > 0 THEN 1 ELSE 0],
         cloudCount |-> IF rainy THEN CeilDiv(TenRainClouds(w.windSpeed), 10)
                        ELSE IF w.conditions = LabelClouds
                        THEN CeilDiv(TenCloudClouds(w.windSpeed), 10)
                        ELSE 5,
         rainCount |-> IF rainy THEN ParticleCount(w.humidity) ELSE 0 - 1,
         streakCount |-> IF windy THEN 50 ELSE 0 - 1,
         fogDensity |-> 1000 + 20 * w.humidity,
         lighting |-> << <<IF dim THEN 4 ELSE 6, 16777215>>,
                         IF dim THEN <<5, 13421823>> ELSE <<8, 16774374>>,
                         <<3, 13430015>> >>,
         arrow |-> IF w.windSpeed > 0
                   THEN <<w.windDirection - 180, 100 + w.windSpeed>>
                   ELSE <<>>]

\* C32: what an updateWeather call leaves - the live kinds, the counts,
\* the fog density, the lights, the arrow - is a function of the state
\* passed to it, whatever the calls before; and the state the engine holds
\* afterwards is the state passed, unmodified.
C32_NoHistory ==
    [][UpdateStep =>
          /\ weatherState' = lastCall'.weather
          /\ VisibleResult' = ConfigurationOf(lastCall'.weather)]_vars

\* A second update, with a state different from the first, has left the
\* configuration of "Clouds" at 3.5 m/s.
C32_Witness ==
    /\ calls = 2
    /\ lastCall.op = "updateWeather"
    /\ ~lastCall.repeated
    /\ lastCall.weather.conditions = LabelClouds
    /\ lastCall.weather.windSpeed = 35
    /\ VisibleResult = ConfigurationOf(lastCall.weather)
    /\ Cardinality(Constructed("clouds")) = 2


-----------------------------------------------------------------------------
(* C33 *)

\* The target rows that lie less than 3 from the height y of the grid.
RowsInRange(y) == {rowY \in {0 - 10, 0, 10} : Abs(y - rowY) < 3}

\* The largest noise term of either generator, 0.05 * 1.03, and the
\* smallest and largest bump of a row in range, 0.3 / e and 0.3.
NoiseBound == (103 * Unit) \div 2000
SmallestBump == (3 * 3678 * Unit) \div (10 * Trig)
LargestBump == 3 * (Unit \div 10)

\* C33: a generated vertex that is less than 3 from a target row has its
\* own prior height, 0, plus the bump of that one row plus the noise; a
\* vertex that is 3 or more from every row has the noise alone; and no
\* vertex is in range of two rows.
C33_RowBumps ==
    terrainLatest # Null =>
        \A i \in 1 .. TerrainWindow :
            LET y == VertexY(terrainLatest.start + i - 1)
                height == terrainLatest.heights[i]
            IN  /\ Cardinality(RowsInRange(y)) <= 1
                /\ RowsInRange(y) = {} => Abs(height) <= NoiseBound
                /\ RowsInRange(y) # {} =>
                       /\ SmallestBump - NoiseBound <= height
                       /\ height <= LargestBump + NoiseBound


-----------------------------------------------------------------------------
(* C34 *)

\* C34: once the plant load has ended with a model, the scene has one
\* field group that holds 3 x 5 = 15 clones, no clone outside it, and the
\* list of mixers holds 15 players; once it has ended without a model,
\* the scene has no field group, no clone and no player.
C34_PlantFieldAndPlayers ==
    /\ plantLoad = "loaded" =>
           /\ plantField = [groups |-> 1, grouped |-> 15, loose |-> 0]
           /\ mixers = 15
    /\ plantLoad = "failed" =>
           /\ plantField = [groups |-> 0, grouped |-> 0, loose |-> 0]
           /\ mixers = 0


-----------------------------------------------------------------------------
(* C35 *)

\* The construction steps in the order of the claim, the clearing of the
\* loading flag last.
ConstructionOrder ==
    <<"setupLighting", "loadTextures", "createTerrain", "createGrass",
      "loadPlantModels", "createPlantField", "setLoading(false)">>

IsPrefix(a, b) == Len(a) <= Len(b) /\ a = SubSeq(b, 1, Len(a))

\* C35: the steps of initializeScene that have started are always an
\* initial part of lighting, texture load, terrain, grass, plant load,
\* plant field, clearing of the loading flag - or the lighting and the
\* texture load followed by the failure; the loading flag is clear only
\* when all of them have run; and a step taken while the failure message
\* is shown leaves the message and the loading flag as they are.
C35_ConstructionOrder ==
    [][/\ \/ IsPrefix(constructionLog', ConstructionOrder)
          \/ constructionLog' = <<"setupLighting", "loadTextures",
                                  "setLoadingMessage(failed)">>
       /\ ~loading' => constructionLog' = ConstructionOrder
       /\ constructionLog' = ConstructionOrder =>
              {"terrain", "grass"} \subseteq built' /\ plantLoad' \in {"loaded", "failed"}
       /\ loadingMessage = MessageFailed =>
              loadingMessage' = MessageFailed /\ loading' /\ loading]_vars

\* Every step has run and the loading flag is clear.
C35_Witness ==
    /\ constructionLog = ConstructionOrder
    /\ ~loading
    /\ "plants" \in built


-----------------------------------------------------------------------------
(* C36 *)

\* C36: after every step of the engine the arrow handle is set exactly
\* when the indicator handle is set and a set indicator handle names a
\* child of the scene; and an updateWeather call with windSpeed above 0 on
\* an engine that holds an indicator keeps that indicator.
C36_IndicatorConsistent ==
    [][/\ windArrow' # Null <=> windIndicator' # Null
       /\ windIndicator' # Null =>
              [id |-> windIndicator'.id, kind |-> "windIndicator"] \in scene'.children
       /\ (UpdateStep /\ windIndicator # Null /\ weatherState'.windSpeed > 0) =>
              windIndicator'.id = windIndicator.id]_vars


-----------------------------------------------------------------------------
(* C37 *)

\* C37: at most one connection attempt is in flight at any time, and once
\* an attempt has succeeded no step starts another one.
C37_OneAttemptInFlight ==
    [][/\ Cardinality(InFlight') <= 1
       /\ (\E p \in Attempts : attempts[p] = "resolved") =>
              \A q \in Attempts : attempts[q] = "unused" => attempts'[q] = "unused"]_vars

-----------------------------------------------------------------------------
(* C38 *)

\* C38: a caller whose attempt failed gets an error and caches no
\* connection; afterwards the failed promise is no longer cached, so that
\* the next call starts an attempt; and when cached.promise is the promise
\* of an attempt in flight, the catch leaves it in place.
C38_FailureClearsOwnPromise ==
    [][\A c \in Callers :
          (callerAt[c] = "awaiting" /\ callerAt'[c] # "awaiting"
             /\ attempts[awaited[c]] = "rejected") =>
              /\ callerAt'[c] = "threw"
              /\ cachedConn' = cachedConn
              /\ cachedPromise' # awaited[c]
              /\ cachedPromise = awaited[c] => cachedPromise' = 0
              /\ cachedPromise \in InFlight => cachedPromise' = cachedPromise]_vars


-----------------------------------------------------------------------------
(* C39 *)

\* The latest of the requests that have succeeded.
LatestSucceeded == CHOOSE r \in succeeded : \A o \in succeeded : o <= r

\* C39: when no fetch is in flight, the weather shown and the weather
\* handed to onWeatherUpdate are the answer to the latest request that got
\* one, not the answer to an older request that came in later; and what
\* onWeatherUpdate received is the answer of a fetch that succeeded.
C39_LatestRequestWins ==
    /\ (outstanding = {} /\ succeeded # {}) =>
           /\ shownWeather.request = LatestSucceeded
           /\ handedOver.request = LatestSucceeded
    /\ handedOver # Null => handedOver.request \in succeeded

=============================================================================
